---- MODULE Spec2Model ----
(***************************************************************************)
(* Image-extraction pipeline of the virtual try-on application: the        *)
(* fetch-page-images route in its fetch variant and its puppeteer variant  *)
(* (both in src/app/layout.tsx), and the URL helpers they share.           *)
(*                                                                         *)
(* A JavaScript string is a sequence of one-character strings, so that     *)
(* startsWith, includes, toLowerCase and the regular-expression rewrites   *)
(* are computed character by character.  Characters are ASCII.             *)
(***************************************************************************)
EXTENDS Integers, Sequences, FiniteSets, TLC

----------------------------------------------------------------------------
(* Strings *)

UpperChars == <<"A","B","C","D","E","F","G","H","I","J","K","L","M","N","O","P","Q","R","S","T","U","V","W","X","Y","Z">>
LowerChars == <<"a","b","c","d","e","f","g","h","i","j","k","l","m","n","o","p","q","r","s","t","u","v","w","x","y","z">>
DigitChars == {"0","1","2","3","4","5","6","7","8","9"}

IsDigit(c) == c \in DigitChars

\* \w of a JavaScript regular expression: [A-Za-z0-9_]
IsWordChar(c) ==
  \/ c \in DigitChars
  \/ c = "_"
  \/ c \in {UpperChars[i] : i \in 1..26}
  \/ c \in {LowerChars[i] : i \in 1..26}

\* the lower-case letter of each capital, and the reverse
LowerOf ==
  [c \in {UpperChars[i] : i \in 1..26} |->
     LowerChars[CHOOSE i \in 1..26 : UpperChars[i] = c]]

UpperOf ==
  [c \in {LowerChars[i] : i \in 1..26} |->
     UpperChars[CHOOSE i \in 1..26 : LowerChars[i] = c]]

toLowerChar(c) == IF c \in DOMAIN LowerOf THEN LowerOf[c] ELSE c

toUpperChar(c) == IF c \in DOMAIN UpperOf THEN UpperOf[c] ELSE c

\* String.prototype.toLowerCase
toLowerCase(s) == [i \in 1..Len(s) |-> toLowerChar(s[i])]

\* String.prototype.toUpperCase
toUpperCase(s) == [i \in 1..Len(s) |-> toUpperChar(s[i])]

\* s has p at position i (1-based)
HasAt(s, i, p) ==
  /\ i >= 1
  /\ i + Len(p) - 1 <= Len(s)
  /\ \A k \in 1..Len(p) : s[i + k - 1] = p[k]

\* String.prototype.startsWith
startsWith(s, p) == HasAt(s, 1, p)

\* String.prototype.includes
includes(s, p) == \E i \in 1..(Len(s) - Len(p) + 1) : HasAt(s, i, p)

\* the rest of s from position i on
From(s, i) == IF i > Len(s) THEN <<>> ELSE SubSeq(s, i, Len(s))

\* the least element of a non-empty set of numbers
Least(S) == CHOOSE i \in S : \A j \in S : i <= j

\* number of characters of s, from position i on, that satisfy \d (isW
\* FALSE) or \w (isW TRUE): the greedy match of \d+ or \w+
RunLen(s, i, isW) ==
  LET stops == {j \in i..Len(s) :
                  ~(IF isW THEN IsWordChar(s[j]) ELSE IsDigit(s[j]))}
  IN  IF i > Len(s) THEN 0
      ELSE IF stops = {} THEN Len(s) - i + 1
      ELSE Least(stops) - i

\* position of the first occurrence of character c in s, 0 when absent
FirstIndexOf(s, c) ==
  LET at == {i \in 1..Len(s) : s[i] = c}
  IN  IF at = {} THEN 0 ELSE Least(at)

----------------------------------------------------------------------------
(* new URL(baseUrl).origin *)

\* the host part: the characters before the first "/", "?" or "#"
HostLen(s, i) ==
  LET stops == {j \in i..Len(s) : s[j] \in {"/", "?", "#"}}
  IN  IF i > Len(s) THEN 0
      ELSE IF stops = {} THEN Len(s) - i + 1
      ELSE Least(stops) - i

\* length of a leading scheme "letters:" of s, 0 when s has none
SchemeLen(s) ==
  LET n == FirstIndexOf(s, ":")
  IN  IF n > 1 /\ \A k \in 1..(n - 1) : toLowerChar(s[k]) # toUpperChar(s[k])
        THEN n ELSE 0

\* new URL(baseUrl): throws on a string that is no absolute URL; the origin
\* of an http(s) URL is scheme://host, that of any other scheme is "null"
ParseUrl(baseUrl) ==
  LET Origin(low, prefix, host) ==
        IF host = 0 THEN [ok |-> FALSE, origin |-> <<>>]
        ELSE [ok |-> TRUE, origin |-> SubSeq(low, 1, prefix + host)]
      Parse(low) ==
        IF startsWith(low, <<"h","t","t","p","s",":","/","/">>) THEN Origin(low, 8, HostLen(low, 9))
        ELSE IF startsWith(low, <<"h","t","t","p",":","/","/">>) THEN Origin(low, 7, HostLen(low, 8))
        ELSE IF SchemeLen(baseUrl) > 0
          THEN [ok |-> TRUE, origin |-> <<"n","u","l","l">>]
        ELSE [ok |-> FALSE, origin |-> <<>>]
  IN  Parse(toLowerCase(baseUrl))

----------------------------------------------------------------------------
(* processImageUrl *)

\* the denylist of the fetch variant
skipPatterns ==
  << <<"i","c","o","n">>, <<"l","o","g","o">>, <<"f","a","v","i","c","o","n">>, <<"s","p","r","i","t","e">>, <<"p","i","x","e","l">>,
     <<"t","r","a","c","k","i","n","g">>, <<"s","p","a","c","e","r">>, <<"b","l","a","n","k">>, <<"1","x","1">>, <<"b","a","d","g","e">>,
     <<"b","u","t","t","o","n">>, <<"a","r","r","o","w">>, <<"l","o","a","d","i","n","g">>, <<"s","p","i","n","n","e","r">>, <<"a","v","a","t","a","r">>,
     <<"e","m","o","j","i">>, <<"f","l","a","g">>, <<"s","o","c","i","a","l">>, <<"s","h","a","r","e">>, <<"f","a","c","e","b","o","o","k">>,
     <<"t","w","i","t","t","e","r">>, <<"i","n","s","t","a","g","r","a","m">>, <<"p","i","n","t","e","r","e","s","t">>, <<"p","a","y","m","e","n","t">>, <<"v","i","s","a">>,
     <<"m","a","s","t","e","r","c","a","r","d">>, <<"p","a","y","p","a","l">>, <<"a","m","e","x">>, <<"p","l","a","c","e","h","o","l","d","e","r">>,
     <<"t","r","a","n","s","p","a","r","e","n","t">>, <<"g","r","a","d","i","e","n","t">> >>

\* the denylist of the puppeteer variant's processImageUrl
skipPatternsPup == SubSeq(skipPatterns, 1, 28)

\* the denylist of browserScrape's in-page filter (no pinterest, no amex)
skipPatternsDom ==
  SubSeq(skipPatterns, 1, 22) \o SubSeq(skipPatterns, 24, 27)

\* the denylist test without the lower-casing of the URL
SomeIncludesCaseSensitive(patterns, url) ==
  \E k \in 1..Len(patterns) : includes(url, patterns[k])

\* const lowerUrl = imgUrl.toLowerCase();
\* skipPatterns.some(p => lowerUrl.includes(p))
SomeIncludes(patterns, url) ==
  LET lowerUrl == toLowerCase(url)
  IN  \E k \in 1..Len(patterns) : includes(lowerUrl, patterns[k])

\* shouldSkip of browserScrape's page.evaluate
shouldSkip(url) == SomeIncludes(skipPatternsDom, url)

\* data: URLs shorter than this are placeholders
DataUrlMinLength == 500

\* the placeholder test with the threshold itself counted as too small
TooSmallDataUriInclusive(imgUrl) ==
  startsWith(imgUrl, <<"d","a","t","a",":">>) /\ Len(imgUrl) <= DataUrlMinLength

\* line 772: imgUrl.startsWith('data:') && imgUrl.length < 500
TooSmallDataUri(imgUrl) ==
  startsWith(imgUrl, <<"d","a","t","a",":">>) /\ Len(imgUrl) < DataUrlMinLength

\* The result of a call: ret names the return statement taken, out the
\* returned string (empty when null), seen the set after the call.
Rejected(ret, seenUrls) == [ret |-> ret, out |-> <<>>, seen |-> seenUrls]

\* a return that does not record the URL
SeenOrAcceptUnrecorded(absoluteUrl, seenUrls) ==
  IF absoluteUrl \in seenUrls
    THEN Rejected("seen", seenUrls)
    ELSE [ret |-> "url", out |-> absoluteUrl, seen |-> seenUrls]

\* lines 794-798: skip if already seen, else record and return
SeenOrAccept(absoluteUrl, seenUrls) ==
  IF absoluteUrl \in seenUrls
    THEN Rejected("seen", seenUrls)
    ELSE [ret |-> "url", out |-> absoluteUrl,
          seen |-> seenUrls \cup {absoluteUrl}]

\* startsWith('http'): the test the code uses for "already absolute"
LooksAbsolute(imgUrl) == startsWith(imgUrl, <<"h","t","t","p">>)

\* lines 774-792: make the URL absolute.  ok is FALSE when new URL(baseUrl)
\* throws
MakeAbsolute(imgUrl, baseUrl) ==
  LET Resolve(urlObj) ==
        IF startsWith(imgUrl, <<"/","/">>)
          THEN [ok |-> TRUE, url |-> <<"h","t","t","p","s",":">> \o imgUrl]
        ELSE IF startsWith(imgUrl, <<"/">>)
          THEN [ok |-> urlObj.ok, url |-> urlObj.origin \o imgUrl]
        ELSE IF ~LooksAbsolute(imgUrl) /\ ~startsWith(imgUrl, <<"d","a","t","a",":">>)
          THEN [ok |-> urlObj.ok, url |-> urlObj.origin \o <<"/">> \o imgUrl]
        ELSE [ok |-> TRUE, url |-> imgUrl]
  IN  Resolve(ParseUrl(baseUrl))

\* lines 1062-1072: the same step in the puppeteer variant, where data: is
\* not recognised
MakeAbsolutePup(imgUrl, baseUrl) ==
  LET Resolve(urlObj) ==
        IF startsWith(imgUrl, <<"/","/">>)
          THEN [ok |-> TRUE, url |-> <<"h","t","t","p","s",":">> \o imgUrl]
        ELSE IF startsWith(imgUrl, <<"/">>)
          THEN [ok |-> urlObj.ok, url |-> urlObj.origin \o imgUrl]
        ELSE IF ~LooksAbsolute(imgUrl)
          THEN [ok |-> urlObj.ok, url |-> urlObj.origin \o <<"/">> \o imgUrl]
        ELSE [ok |-> TRUE, url |-> imgUrl]
  IN  Resolve(ParseUrl(baseUrl))

\* processImageUrl of the fetch variant
processImageUrl(imgUrl, baseUrl, seenUrls) ==
  IF imgUrl = <<>> \/ imgUrl \in seenUrls
    THEN Rejected("empty_or_seen", seenUrls)
  ELSE IF SomeIncludes(skipPatterns, imgUrl) THEN Rejected("skip", seenUrls)
  ELSE IF TooSmallDataUri(imgUrl) THEN Rejected("small_data", seenUrls)
  ELSE LET Finish(absolute) ==
             IF ~absolute.ok THEN Rejected("bad_base", seenUrls)
             ELSE SeenOrAccept(absolute.url, seenUrls)
       IN  Finish(MakeAbsolute(imgUrl, baseUrl))

\* processImageUrl of the puppeteer variant: no data: rule, and new URL is
\* not guarded, so a base that cannot be parsed makes the call throw
processImageUrlPup(imgUrl, baseUrl, seenUrls) ==
  IF imgUrl = <<>> \/ imgUrl \in seenUrls
    THEN Rejected("empty_or_seen", seenUrls)
  ELSE IF SomeIncludes(skipPatternsPup, imgUrl) THEN Rejected("skip", seenUrls)
  ELSE LET Finish(absolute) ==
             IF ~absolute.ok THEN Rejected("throw", seenUrls)
             ELSE SeenOrAccept(absolute.url, seenUrls)
       IN  Finish(MakeAbsolutePup(imgUrl, baseUrl))

----------------------------------------------------------------------------
(* getHighResUrl *)

\* match length at position i of /[\?&]key=\d+/ (isW FALSE) or
\* /[\?&]key=\w+/ (isW TRUE), 0 when there is no match at i
ParamMatchLen(s, i, key, isW) ==
  LET Match(value) == IF value >= 1 THEN Len(key) + 2 + value ELSE 0
  IN  IF s[i] \in {"?", "&"} /\ HasAt(s, i + 1, key \o <<"=">>)
        THEN Match(RunLen(s, i + Len(key) + 2, isW))
        ELSE 0

\* match length at position i of /<lead>\d+x\d+<trail>/
DimMatchLen(s, i, lead, trail) ==
  LET Height(d1, d2) ==
        IF d2 >= 1 /\ HasAt(s, i + 2 + d1 + d2, <<trail>>)
          THEN 3 + d1 + d2 ELSE 0
      Width(d1) ==
        IF d1 >= 1 /\ HasAt(s, i + 1 + d1, <<"x">>)
          THEN Height(d1, RunLen(s, i + 2 + d1, FALSE)) ELSE 0
  IN  IF s[i] = lead THEN Width(RunLen(s, i + 1, FALSE)) ELSE 0

\* match length at position i of /\/w\/\d+\//
WidthSegMatchLen(s, i) ==
  LET Match(d) == IF d >= 1 /\ HasAt(s, i + 3 + d, <<"/">>) THEN 4 + d ELSE 0
  IN  IF HasAt(s, i, <<"/","w","/">>) THEN Match(RunLen(s, i + 3, FALSE)) ELSE 0

\* s.replace(/[\?&]key=.../g, ''): matches are taken left to right and do
\* not overlap; the scan resumes after each match
RECURSIVE RemoveParam(_, _, _, _)
RemoveParam(s, i, key, isW) ==
  LET Cut(j, len) == SubSeq(s, i, j - 1) \o RemoveParam(s, j + len, key, isW)
      CutFirst(j) == Cut(j, ParamMatchLen(s, j, key, isW))
      Replace(at) == IF at = {} THEN From(s, i) ELSE CutFirst(Least(at))
  IN  Replace({j \in i..Len(s) : ParamMatchLen(s, j, key, isW) > 0})

\* s.replace(/<lead>\d+x\d+<trail>/g, '<trail>')
RECURSIVE CollapseDim(_, _, _, _)
CollapseDim(s, i, lead, trail) ==
  LET Cut(j, len) ==
        SubSeq(s, i, j - 1) \o <<trail>> \o CollapseDim(s, j + len, lead, trail)
      CutFirst(j) == Cut(j, DimMatchLen(s, j, lead, trail))
      Replace(at) == IF at = {} THEN From(s, i) ELSE CutFirst(Least(at))
  IN  Replace({j \in i..Len(s) : DimMatchLen(s, j, lead, trail) > 0})

\* s.replace(/\/w\/\d+\//g, '/w/1920/')
RECURSIVE MaxWidthSeg(_, _)
MaxWidthSeg(s, i) ==
  LET Cut(j, len) ==
        SubSeq(s, i, j - 1) \o <<"/","w","/","1","9","2","0","/">> \o MaxWidthSeg(s, j + len)
      CutFirst(j) == Cut(j, WidthSegMatchLen(s, j))
      Replace(at) == IF at = {} THEN From(s, i) ELSE CutFirst(Least(at))
  IN  Replace({j \in i..Len(s) : WidthSegMatchLen(s, j) > 0})

\* s.replace(/\?.*$/, ''): everything from the first "?" on is dropped
DropQuery(s) ==
  LET q == FirstIndexOf(s, "?")
  IN  IF q = 0 THEN s ELSE SubSeq(s, 1, q - 1)

\* s.replace(/\?ts=.*$/, '')
DropTimestamp(s) ==
  IF includes(s, <<"?","t","s","=">>)
    THEN SubSeq(s, 1, Least({i \in 1..Len(s) : HasAt(s, i, <<"?","t","s","=">>)}) - 1)
    ELSE s

\* lines 804-813: the default rewrite
DefaultHighRes(imgUrl) ==
  LET s1 == RemoveParam(imgUrl, 1, <<"w">>, FALSE)
      s2 == RemoveParam(s1, 1, <<"h">>, FALSE)
      s3 == RemoveParam(s2, 1, <<"w","i","d","t","h">>, FALSE)
      s4 == RemoveParam(s3, 1, <<"h","e","i","g","h","t">>, FALSE)
      s5 == RemoveParam(s4, 1, <<"s","i","z","e">>, TRUE)
      s6 == CollapseDim(s5, 1, "_", ".")
      s7 == CollapseDim(s6, 1, "-", ".")
      s8 == CollapseDim(s7, 1, "/", "/")
  IN  DropQuery(s8)

\* lines 815-820
ZaraHighRes(imgUrl) == DropTimestamp(MaxWidthSeg(imgUrl, 1))

IsZara(imgUrl) == includes(imgUrl, <<"z","a","r","a",".","c","o","m">>)

IsHm(imgUrl) == includes(imgUrl, <<"h","m",".","c","o","m">>) \/ includes(imgUrl, <<"h","m","g","r","o","u","p">>)

\* the two site rules are consecutive ifs, each assigning highRes: when
\* both hosts match, the later assignment (H&M) is the one returned
getHighResUrl(imgUrl) ==
  LET OrOriginal(highRes) == IF highRes = <<>> THEN imgUrl ELSE highRes
  IN  OrOriginal(IF IsHm(imgUrl) THEN DropQuery(imgUrl)
                 ELSE IF IsZara(imgUrl) THEN ZaraHighRes(imgUrl)
                 ELSE DefaultHighRes(imgUrl))

----------------------------------------------------------------------------
(* Lists *)

Range(s) == {s[i] : i \in 1..Len(s)}

\* [...new Set(list)]: the first occurrence of each element, in order
RECURSIVE Unique(_)
Unique(list) ==
  IF list = <<>> THEN <<>>
  ELSE LET front == Unique(SubSeq(list, 1, Len(list) - 1))
           last == list[Len(list)]
       IN  IF last \in Range(front) THEN front ELSE Append(front, last)

\* Array.prototype.slice(0, n)
Slice(list, n) == SubSeq(list, 1, IF Len(list) < n THEN Len(list) ELSE n)

----------------------------------------------------------------------------
(* simpleScrape: the scan of the page text *)

\* A page is the list of captures each of the scan's regular expressions
\* finds in the HTML text, in document order.  needsJs is the puppeteer
\* variant's test for a client-rendered page (lines 1100-1103).
EmptyPage ==
  [needsJs |-> FALSE, og |-> <<>>, twitter |-> <<>>, jsonld |-> <<>>,
   data |-> <<>>, img |-> <<>>, srcset |-> <<>>, js |-> <<>>]

\* match[1].includes('.jpg') || ... (lines 920-921), case-sensitive
HasImageExt(s) ==
  \/ includes(s, <<".","j","p","g">>)
  \/ includes(s, <<".","j","p","e","g">>)
  \/ includes(s, <<".","p","n","g">>)
  \/ includes(s, <<".","w","e","b","p">>)

\* src.match(/\.(jpg|jpeg|png|webp)/i) (line 932)
HasImageExtAnyCase(s) == HasImageExt(toLowerCase(s))

\* lines 954-956
LooksLikeProduct(s) ==
  \/ includes(s, <<"p","r","o","d","u","c","t">>)
  \/ includes(s, <<"m","e","d","i","a">>)
  \/ includes(s, <<"i","m","a","g","e">>)
  \/ includes(s, <<"p","h","o","t","o">>)
  \/ includes(s, <<"c","a","t","a","l","o","g">>)
  \/ includes(s, <<"a","s","s","e","t">>)

\* String.prototype.trim, for blanks
RECURSIVE trim(_)
trim(s) ==
  IF s = <<>> THEN s
  ELSE IF s[1] = " " THEN trim(Tail(s))
  ELSE IF s[Len(s)] = " " THEN trim(SubSeq(s, 1, Len(s) - 1))
  ELSE s

\* parts[parts.length - 1].trim().split(' ')[0] of srcset.split(',')
LastSrcsetUrl(srcset) ==
  LET commas == {i \in 1..Len(srcset) : srcset[i] = ","}
      start == IF commas = {} THEN 1
               ELSE 1 + (CHOOSE i \in commas : \A j \in commas : j <= i)
      part == trim(From(srcset, start))
      sp == FirstIndexOf(part, " ")
  IN  IF sp = 0 THEN part ELSE SubSeq(part, 1, sp - 1)

LastSrcsetUrls(list) == [i \in 1..Len(list) |-> LastSrcsetUrl(list[i])]

NonEmpty(s) == s # <<>>

First(list) == IF list = <<>> THEN <<>> ELSE <<list[1]>>

\* JSON-LD.  page.jsonld lists the script blocks of type
\* application/ld+json in document order.  A block is valid JSON or not; a
\* valid one holds schemas with fields kind ("obj", or "null" for JSON
\* null), type, image, itemListElement and graph.  An image value has a
\* kind: "str", "obj" (with url and contentUrl), "arr" (with items), "num",
\* "null", or "none" when the field is absent or empty.

\* a JSON value that stands for nothing: absent, empty or null
NoValue ==
  [kind |-> "none", str |-> <<>>, url |-> <<>>, contentUrl |-> <<>>,
   items |-> <<>>]

\* one step of the traversal: the argument an image value hands to addImage,
\* or a TypeError.  img.url of null throws, and a number reaches
\* imgUrl.toLowerCase() in processImageUrl, which throws; typeof of an
\* array is 'object', and its url is undefined.
ImageStep(img, withContentUrl) ==
  [throws |-> img.kind \in {"null", "num"},
   arg |-> IF img.kind = "str" THEN img.str
           ELSE IF img.kind # "obj" THEN <<>>
           ELSE IF img.url # <<>> \/ ~withContentUrl THEN img.url
           ELSE img.contentUrl]

\* a step that throws
ThrowStep == [throws |-> TRUE, arg |-> <<>>]

\* lines 877-883 and 893-899: if the image field is truthy,
\* imgs = Array.isArray(image) ? image : [image], one step per element
ImageSteps(image, withContentUrl) ==
  IF image.kind \in {"none", "null"} THEN <<>>
  ELSE IF image.kind = "arr"
    THEN [k \in 1..Len(image.items) |->
            ImageStep(image.items[k], withContentUrl)]
  ELSE <<ImageStep(image, withContentUrl)>>

\* line 887: if (item.image) addImage(typeof item.image === 'object' ?
\* item.image.url : item.image)
ItemStep(item) ==
  IF item.kind = "null" THEN ThrowStep
  ELSE IF item.image.kind \in {"none", "null"}
    THEN [throws |-> FALSE, arg |-> <<>>]
  ELSE ImageStep(item.image, FALSE)

\* lines 892-900: the nodes of @graph
RECURSIVE GraphSteps(_)
GraphSteps(nodes) ==
  IF nodes = <<>> THEN <<>>
  ELSE (IF nodes[1].kind = "null" THEN <<ThrowStep>>
        ELSE IF nodes[1].type = "Product"
          THEN ImageSteps(nodes[1].image, FALSE)
        ELSE <<>>)
       \o GraphSteps(Tail(nodes))

\* lines 875-902: one schema.  The puppeteer variant (lines 1126-1134) reads
\* Product nodes only and no contentUrl.
SchemaSteps(schema, pup) ==
  IF schema.kind = "null" THEN <<ThrowStep>>
  ELSE (IF schema.type = "Product" THEN ImageSteps(schema.image, ~pup)
        ELSE <<>>)
       \o (IF pup \/ schema.type # "ItemList" THEN <<>>
           ELSE [k \in 1..Len(schema.itemListElement) |->
                   ItemStep(schema.itemListElement[k])])
       \o (IF pup THEN <<>> ELSE GraphSteps(schema.graph))

\* lines 873-875: JSON.parse throws on a block that is no JSON
RECURSIVE BlockSteps(_, _, _)
BlockSteps(valid, schemas, pup) ==
  IF ~valid THEN <<ThrowStep>>
  ELSE IF schemas = <<>> THEN <<>>
  ELSE SchemaSteps(schemas[1], pup) \o BlockSteps(valid, Tail(schemas), pup)

\* the addImage calls made before the first step that throws
CallsBeforeThrow(steps) ==
  LET Upto(n) == SelectSeq([k \in 1..n |-> steps[k].arg], NonEmpty)
  IN  Upto(IF \A k \in 1..Len(steps) : ~steps[k].throws THEN Len(steps)
           ELSE Least({k \in 1..Len(steps) : steps[k].throws}) - 1)

\* one try around the whole loop: an exception ends the scan of the blocks
RestAfterOneTry(blocks, threw) == IF threw THEN <<>> ELSE Tail(blocks)

\* try and catch {} inside the loop (lines 872, 903): the next block is
\* scanned whatever happened in this one
RestAfter(blocks, threw) == Tail(blocks)

\* lines 871-904: the calls of addImage the JSON-LD blocks lead to
RECURSIVE JsonLdCalls(_, _)
JsonLdCalls(blocks, pup) ==
  IF blocks = <<>> THEN <<>>
  ELSE LET Scan(steps) ==
             CallsBeforeThrow(steps)
               \o JsonLdCalls(RestAfter(blocks,
                                        \E k \in 1..Len(steps) : steps[k].throws),
                              pup)
       IN  Scan(BlockSteps(blocks[1].valid, blocks[1].schemas, pup))

\* the calls of addImage for the sources after JSON-LD (lines 906-959)
LaterCalls(page) ==
  SelectSeq(page.data, HasImageExt)
    \o SelectSeq(page.img, HasImageExtAnyCase)
    \o SelectSeq(LastSrcsetUrls(page.srcset), NonEmpty)
    \o SelectSeq(page.js, LooksLikeProduct)

\* a scan that reads the img tags before the lazy-load attributes
AddImageCallsImgFirst(page) ==
  First(page.og) \o First(page.twitter) \o JsonLdCalls(page.jsonld, FALSE)
    \o SelectSeq(page.img, HasImageExtAnyCase)
    \o SelectSeq(page.data, HasImageExt)
    \o SelectSeq(LastSrcsetUrls(page.srcset), NonEmpty)
    \o SelectSeq(page.js, LooksLikeProduct)

\* the calls of addImage the fetch variant makes on a page, in order
\* (lines 860-959)
AddImageCalls(page) ==
  First(page.og) \o First(page.twitter) \o JsonLdCalls(page.jsonld, FALSE)
    \o LaterCalls(page)

\* the calls of addImage the puppeteer variant makes (lines 1112-1145)
AddImageCallsPup(page) ==
  First(page.og) \o First(page.twitter) \o JsonLdCalls(page.jsonld, TRUE)
    \o page.img \o page.data

\* a seen-URL set kept at module level: a call finds what every run holds
NewSetShared(held) == UNION {held[r] : r \in DOMAIN held}

\* new Set<string>() in the body of simpleScrape: every call starts from an
\* empty set, whatever sets the runs in flight hold
NewSet(held) == {}

\* addImage of the fetch variant (lines 849-858) on the scan state
\* [images, seen, threw]
addImage(st, imgUrl, url) ==
  LET Push(highRes, seen) ==
        IF highRes \in seen THEN [st EXCEPT !.seen = seen]
        ELSE [st EXCEPT !.images = Append(st.images, highRes),
                        !.seen = seen \cup {highRes}]
      Add(processed) ==
        IF processed.ret # "url" THEN st
        ELSE Push(getHighResUrl(processed.out), processed.seen)
  IN  Add(processImageUrl(imgUrl, url, st.seen))

\* addImage of the puppeteer variant (lines 1107-1110)
addImagePup(st, imgUrl, url) ==
  LET Add(processed) ==
        IF processed.ret = "throw" THEN [st EXCEPT !.threw = TRUE]
        ELSE IF processed.ret # "url" THEN st
        ELSE [st EXCEPT !.images = Append(st.images, processed.out),
                        !.seen = processed.seen]
  IN  Add(processImageUrlPup(imgUrl, url, st.seen))

\* the scan: addImage on each call in turn; an exception ends the scan and
\* the catch returns the images collected so far
RECURSIVE ScanFrom(_, _, _, _)
ScanFrom(st, calls, url, pup) ==
  IF calls = <<>> \/ st.threw THEN st
  ELSE ScanFrom(IF pup THEN addImagePup(st, calls[1], url)
                       ELSE addImage(st, calls[1], url),
                Tail(calls), url, pup)

\* simpleScrape once the page text is read: the images it returns and the
\* seen-URL set it leaves
ScanPage(page, url, seen, pup) ==
  LET st0 == [images |-> <<>>, seen |-> seen, threw |-> FALSE]
  IN  IF pup /\ page.needsJs THEN st0
      ELSE ScanFrom(st0, IF pup THEN AddImageCallsPup(page)
                         ELSE AddImageCalls(page),
                    url, pup)

----------------------------------------------------------------------------
(* fetchImagesWithFallbacks and the merge of the puppeteer variant *)

\* the candidate threshold below which the second stage runs
MinDirectImages == 3

\* the threshold test with the boundary on the wrong side
NeedsSecondStageInclusive(n) == n <= MinDirectImages

\* images.length < 3
NeedsSecondStage(n) == n < MinDirectImages

\* lines 975-980 and 1317-1323: append what is not yet in the list
RECURSIVE MergeInto(_, _)
MergeInto(images, more) ==
  IF more = <<>> THEN images
  ELSE MergeInto(IF more[1] \in Range(images) THEN images
                 ELSE Append(images, more[1]),
                 Tail(more))

\* lines 996-1003: the img scan of the mobile page, on [images, seen]
RECURSIVE MobileScan(_, _, _)
MobileScan(st, srcs, url) ==
  IF srcs = <<>> THEN st
  ELSE LET Add(processed) ==
             IF processed.ret = "url" /\ processed.out \notin processed.seen
               THEN [images |-> Append(st.images, getHighResUrl(processed.out)),
                     seen |-> processed.seen \cup {processed.out}]
               ELSE [images |-> st.images, seen |-> processed.seen]
       IN  MobileScan(Add(processImageUrl(srcs[1], url, st.seen)),
                      Tail(srcs), url)

\* the cap on the returned list
MaxImages == 30

----------------------------------------------------------------------------
(* browserScrape: the extraction inside the rendered page *)

\* A rendered document: the content of the og:image meta element (empty
\* when absent) and the img elements [src, width, height, srcset].
EmptyDom == [og |-> <<>>, imgs |-> <<>>]

Area(img) == img.width * img.height

\* rect.width > 50 && rect.height > 50
Visible(img) == img.width > 50 /\ img.height > 50

\* Array.prototype.sort((a, b) => b.area - a.area): stable, largest first
RECURSIVE SortByArea(_)
SortByArea(list) ==
  IF list = <<>> THEN <<>>
  ELSE LET front == SortByArea(SubSeq(list, 1, Len(list) - 1))
           last == list[Len(list)]
           before == {i \in 1..Len(front) : Area(front[i]) >= Area(last)}
           k == IF before = {} THEN 0
                ELSE CHOOSE i \in before : \A j \in before : j <= i
       IN  SubSeq(front, 1, k) \o <<last>> \o SubSeq(front, k + 1, Len(front))

\* lines 1264-1269 and 1272-1281: push what has not been seen
RECURSIVE PushUnseen(_, _)
PushUnseen(results, urls) ==
  IF urls = <<>> THEN results
  ELSE PushUnseen(IF urls[1] \in Range(results) THEN results
                  ELSE Append(results, urls[1]),
                  Tail(urls))

ImgSrc(img) == img.src

ImgSrcsetUrl(img) ==
  IF img.srcset = <<>> THEN <<>> ELSE LastSrcsetUrl(img.srcset)

KeepUrl(u) == u # <<>> /\ ~shouldSkip(u)

\* the value of the second page.evaluate (lines 1226-1284)
DomImages(dom) ==
  LET results0 == IF dom.og # <<>> /\ ~shouldSkip(dom.og) THEN <<dom.og>>
                  ELSE <<>>
      KeepImg(img) == /\ img.src # <<>>
                      /\ Visible(img)
                      /\ ~shouldSkip(img.src)
                      /\ img.src \notin Range(results0)
      imageData == SortByArea(SelectSeq(dom.imgs, KeepImg))
      results1 == PushUnseen(results0, [i \in 1..Len(imageData) |-> ImgSrc(imageData[i])])
  IN  PushUnseen(results1, SelectSeq([i \in 1..Len(dom.imgs) |-> ImgSrcsetUrl(dom.imgs[i])], KeepUrl))


----------------------------------------------------------------------------
(* The scrape-image route (puppeteer variant): one image per page *)

\* A page as extractImageFromHtml sees it: the captures of the og:image
\* and twitter:image expressions, the image of the first Product node of
\* each JSON-LD block (empty when that image is falsy), the first capture
\* of each of Strategy 4's five patterns (empty when a pattern finds
\* nothing), and the captures of Strategy 5's img expression.  needsJs is
\* simpleScrape's test for a page that needs a browser.
EmptyScrapePage ==
  [needsJs |-> FALSE, og |-> <<>>, twitter |-> <<>>, jsonld |-> <<>>,
   patterns |-> <<>>, img |-> <<>>]

\* Strategy 5: the first reasonable image; the tests are case-sensitive
ReasonableImage(src) ==
  /\ src # <<>>
  /\ ~includes(src, <<"i","c","o","n">>)
  /\ ~includes(src, <<"l","o","g","o">>)
  /\ ~includes(src, <<"f","a","v","i","c","o","n">>)
  /\ ~includes(src, <<"p","l","a","c","e","h","o","l","d","e","r">>)
  /\ ~includes(src, <<"1","x","1">>)
  /\ ~includes(src, <<"s","p","r","i","t","e">>)
  /\ ~includes(src, <<"t","r","a","c","k","i","n","g">>)
  /\ ~includes(src, <<"p","i","x","e","l">>)
  /\ HasImageExt(src)

\* the strategies in order: each one runs only if (!imageUrl)
FoundImage(page) ==
  LET Else(found, next) == IF found # <<>> THEN found ELSE next
  IN  Else(First(page.og),
        Else(First(page.twitter),
          Else(First(SelectSeq(page.jsonld, NonEmpty)),
            Else(First(SelectSeq(page.patterns, NonEmpty)),
                 First(SelectSeq(page.img, ReasonableImage))))))

\* extractImageFromHtml: the image found, made absolute.  new URL(baseUrl)
\* is not guarded here: threw says the call raised.
extractImageFromHtml(page, baseUrl) ==
  LET Absolute(resolved) ==
        IF resolved.ok THEN [threw |-> FALSE, imageUrl |-> <<resolved.url>>]
        ELSE [threw |-> TRUE, imageUrl |-> <<>>]
      Extract(found) ==
        IF found = <<>> THEN [threw |-> FALSE, imageUrl |-> <<>>]
        ELSE Absolute(MakeAbsolutePup(found[1], baseUrl))
  IN  Extract(FoundImage(page))

\* simpleScrape after response.text(): null for a page that needs a
\* browser and when extractImageFromHtml raised (the catch)
ScrapePage(page, baseUrl) ==
  IF page.needsJs THEN <<>> ELSE extractImageFromHtml(page, baseUrl).imageUrl

\* Strategy 6 of the mobile variant also passes over data: sources
NotDataUrl(src) == ~startsWith(src, <<"d","a","t","a",":">>)

\* simpleScrape and mobileScrape of the mobile variant after
\* response.text(): extractImageFromHtml on every page, null when the base
\* URL cannot be parsed
ScrapePageMobileUA(page, baseUrl) ==
  extractImageFromHtml([page EXCEPT !.img = SelectSeq(@, NotDataUrl)],
                       baseUrl).imageUrl

\* A rendered document as browserScrape's page.evaluate sees it: the content
\* of the og:image and twitter:image meta elements, the image of the first
\* Product node of each JSON-LD script, and the img elements.
EmptyScrapeDom ==
  [og |-> <<>>, twitter |-> <<>>, jsonld |-> <<>>, imgs |-> <<>>]

\* the rendered area an image must exceed to count as a product image
MinProductArea == 10000

\* Method 4's test on src, case-sensitive
NotChrome(src) ==
  /\ src # <<>>
  /\ ~includes(src, <<"i","c","o","n">>)
  /\ ~includes(src, <<"l","o","g","o">>)
  /\ ~includes(src, <<"f","a","v","i","c","o","n">>)
  /\ ~includes(src, <<"p","l","a","c","e","h","o","l","d","e","r">>)
  /\ ~includes(src, <<"1","x","1">>)
  /\ ~includes(src, <<"t","r","a","c","k","i","n","g">>)

\* Method 4: the loop that keeps the largest image seen so far
RECURSIVE LargestImage(_, _, _)
LargestImage(imgs, largestArea, largestImage) ==
  IF imgs = <<>> THEN largestImage
  ELSE IF /\ Area(imgs[1]) > largestArea
          /\ Area(imgs[1]) > MinProductArea
          /\ NotChrome(imgs[1].src)
    THEN LargestImage(Tail(imgs), Area(imgs[1]), <<imgs[1].src>>)
    ELSE LargestImage(Tail(imgs), largestArea, largestImage)

\* the value of page.evaluate: the first method that returns.  Method 3
\* returns the image of the first Product node even when it is falsy.
ScrapeDomImage(dom) ==
  IF dom.og # <<>> THEN <<dom.og>>
  ELSE IF dom.twitter # <<>> THEN <<dom.twitter>>
  ELSE IF dom.jsonld # <<>> THEN First(SelectSeq(<<dom.jsonld[1]>>, NonEmpty))
  ELSE LargestImage(dom.imgs, 0, <<>>)
----------------------------------------------------------------------------
(* What the web serves: page URLs, pages, rendered documents *)

\* extra matches of the large page beyond the cap
OverCap == 2

\* concurrent requests
NumRuns == 2

Runs == 1..NumRuns

ShopUrl == <<"h","t","t","p","s",":","/","/","s","h","o","p",".","e","x","/","i","t","e","m">>

\* a url fetch() cannot parse
BareUrl == <<"s","h","o","p",".","e","x","/","i","t","e","m">>

\* a page URL whose host holds a denylist token ("flag")
FlagshipUrl == <<"h","t","t","p","s",":","/","/","f","l","a","g","s","h","i","p",".","e","x","/","i","t","e","m">>

PageUrls == {ShopUrl, BareUrl, FlagshipUrl}

UrlA == <<"/","/","c","d","n",".","e","x","/","p",".","j","p","g","?","w","=","2","0","0">>
UrlB == <<"h","t","t","p","s",":","/","/","c","d","n",".","e","x","/","p",".","j","p","g","?","w","=","4","0","0">>
UrlC == <<"/","a","_","3","0","0","x","3","0","0",".","j","p","g">>
UrlD == <<"i","m","g","/","b",".","p","n","g","?","s","i","z","e","=","s","m","a","l","l">>
UrlE == <<"/","i","m","g","/","I","C","O","N",".","p","n","g","?","w","=","6","4">>
UrlF == <<"h","t","t","p","s",":","/","/","c","d","n",".","e","x","/","l","o","g","o",".","p","n","g">>
UrlG == <<"h","t","t","p","d","o","c","s","/","c","-","1","0","x","1","0",".","j","p","g">>
UrlH == <<"h","t","t","p","s",":","/","/","c","d","n",".","e","x","/","m","e","d","i","a","/","d",".","w","e","b","p","?","h","=","9","0">>
UrlI == <<"h","t","t","p","s",":","/","/","c","d","n",".","e","x","/","p","l","a","i","n",".","j","p","g">>

DigitOf(d) == <<"0", "1", "2", "3", "4", "5", "6", "7", "8", "9">>[d + 1]

\* the n-th of a family of distinct image URLs
NumberedUrl(n) ==
  <<"h","t","t","p","s",":","/","/","c","d","n",".","e","x","/","i","/">> \o <<DigitOf(n \div 10), DigitOf(n % 10)>>
    \o <<".","j","p","g","?","w","=","2","0","0">>

\* JSON values
StrImage(s) == [NoValue EXCEPT !.kind = "str", !.str = s]

ObjImage(u, c) == [NoValue EXCEPT !.kind = "obj", !.url = u, !.contentUrl = c]

ArrImage(items) == [NoValue EXCEPT !.kind = "arr", !.items = items]

NullValue == [NoValue EXCEPT !.kind = "null"]

NumImage == [NoValue EXCEPT !.kind = "num"]

Node(type, image) == [kind |-> "obj", type |-> type, image |-> image]

NullNode == [kind |-> "null", type |-> "", image |-> NoValue]

Schema(type, image, items, nodes) ==
  [kind |-> "obj", type |-> type, image |-> image, itemListElement |-> items,
   graph |-> nodes]

ProductSchema(image) == Schema("Product", image, <<>>, <<>>)

ItemListSchema(images) ==
  Schema("ItemList", NoValue,
         [k \in 1..Len(images) |-> Node("ListItem", images[k])], <<>>)

GraphSchema(images) ==
  Schema("", NoValue, <<>>,
         [k \in 1..Len(images) |-> Node("Product", images[k])])

Block(schemas) == [valid |-> TRUE, schemas |-> schemas]

InvalidBlock == [valid |-> FALSE, schemas |-> <<>>]

\* a block with one Product schema whose image is the string s
ProductBlock(s) == Block(<<ProductSchema(StrImage(s))>>)

UrlJ == <<"h","t","t","p","s",":","/","/","c","d","n",".","e","x","/","j","1",".","j","p","g","?","w","=","1","0","0">>
UrlK == <<"h","t","t","p","s",":","/","/","c","d","n",".","e","x","/","k","2",".","j","p","g","?","w","=","1","0","0">>
UrlL == <<"/","l","3","_","1","0","x","1","0",".","j","p","g">>

\* the shapes of an image field the scan is to handle
ImageShapes ==
  { StrImage(UrlJ), ArrImage(<<StrImage(UrlJ), StrImage(UrlK)>>),
    ObjImage(UrlJ, <<>>), ObjImage(<<>>, UrlK),
    ArrImage(<<ObjImage(UrlK, <<>>), StrImage(UrlL)>>) }

\* blocks whose traversal throws or finds nothing
OddImages ==
  { NoValue, NullValue, NumImage, ArrImage(<<>>),
    ArrImage(<<StrImage(UrlJ), NullValue, StrImage(UrlK)>>),
    ArrImage(<<StrImage(UrlJ), NumImage>>), StrImage(<<>>) }

\* the blocks handed to the JSON-LD scan on its own: one schema of each node
\* kind around each image value, and blocks that are broken
SampleBlocks ==
  {Block(<<ProductSchema(i)>>) : i \in ImageShapes \cup OddImages}
    \cup {Block(<<ItemListSchema(<<i>>)>>) : i \in ImageShapes \cup OddImages}
    \cup {Block(<<GraphSchema(<<i>>)>>) : i \in ImageShapes \cup OddImages}
    \cup { InvalidBlock, Block(<<>>),
           Block(<<[Schema("", NoValue, <<>>, <<>>) EXCEPT !.kind = "null"]>>),
           Block(<<ProductSchema(StrImage(UrlJ)),
                   ItemListSchema(<<StrImage(UrlK), StrImage(UrlL)>>)>>),
           Block(<<[GraphSchema(<<StrImage(UrlJ), StrImage(UrlK)>>)
                      EXCEPT !.graph = <<@[1], NullNode, @[2]>>]>>) }

PageOne == [EmptyPage EXCEPT !.og = <<UrlA>>, !.img = <<UrlB>>]

PageTwo ==
  [EmptyPage EXCEPT !.og = <<UrlA>>, !.twitter = <<UrlF>>,
                    !.jsonld = <<ProductBlock(UrlC)>>, !.img = <<UrlB, UrlE, UrlI>>]

PageThree ==
  [EmptyPage EXCEPT !.og = <<UrlA>>, !.jsonld = <<ProductBlock(UrlC)>>, !.img = <<UrlH>>]

PageMany ==
  [EmptyPage EXCEPT !.og = <<UrlA>>, !.jsonld = <<ProductBlock(UrlC), ProductBlock(<<>>)>>,
                    !.data = <<UrlD, <<"l","a","z","y","?","w","=","1">>>>, !.img = <<UrlG, UrlB>>,
                    !.srcset = <<<<"/","s","1",".","j","p","g","?","w","=","1","0","0"," ","1","x",","," ","/","s","2",".","j","p","g","?","w","=","2","0","0"," ","2","x">>>>,
                    !.js = <<UrlH, <<"h","t","t","p","s",":","/","/","c","d","n",".","e","x","/","x","/","e",".","j","p","g","?","w","=","1">>>>]

PageLarge ==
  [EmptyPage EXCEPT !.img = [i \in 1..(MaxImages + OverCap) |-> NumberedUrl(i)]]

PageClientRendered == [PageThree EXCEPT !.needsJs = TRUE]

PageSingle == [EmptyPage EXCEPT !.og = <<UrlA>>]

\* a page with a block that is no JSON and blocks whose traversal throws,
\* between blocks that are sound
PageBrokenLd ==
  [EmptyPage EXCEPT
     !.og = <<UrlA>>,
     !.jsonld = << ProductBlock(UrlC), InvalidBlock,
                   Block(<<ProductSchema(ArrImage(<<StrImage(UrlJ), NullValue,
                                                   StrImage(UrlB)>>))>>),
                   Block(<<ItemListSchema(<<StrImage(UrlK)>>)>>),
                   Block(<<GraphSchema(<<NumImage>>)>>),
                   Block(<<GraphSchema(<<ObjImage(UrlL, <<>>)>>)>>) >>,
     !.img = <<UrlH>>,
     !.srcset = <<<<"/","s","1",".","j","p","g","?","w","=","1","0","0"," ","1","x",","," ","/","s","2",".","j","p","g","?","w","=","2","0","0"," ","2","x">>>>]

AllPages ==
  {EmptyPage, PageSingle, PageOne, PageTwo, PageThree, PageMany, PageLarge,
   PageClientRendered, PageBrokenLd}

\* the img src captures of the page served to the mobile user agent
AllMobilePages == {<<>>, <<UrlC, <<"h","t","t","p","s",":","/","/","m",".","e","x","/","x",".","j","p","g","?","w","=","1","0","0">>, UrlE>>}

DomImg(src, w, h, srcset) ==
  [src |-> src, width |-> w, height |-> h, srcset |-> srcset]

DomOne ==
  [og |-> UrlA,
   imgs |-> << DomImg(<<"h","t","t","p","s",":","/","/","s","h","o","p",".","e","x","/","s","m","a","l","l",".","j","p","g">>, 100, 100, <<>>),
               DomImg(<<"h","t","t","p","s",":","/","/","c","d","n",".","e","x","/","p",".","j","p","g","?","w","=","2","0","0">>, 400, 400,
                      <<"/","s","1",".","j","p","g"," ","1","x",","," ","/","s","2",".","j","p","g"," ","2","x">>),
               DomImg(<<"h","t","t","p","s",":","/","/","s","h","o","p",".","e","x","/","i","m","g","/","I","c","o","n",".","p","n","g">>, 60, 60, <<>>),
               DomImg(<<"h","t","t","p","s",":","/","/","s","h","o","p",".","e","x","/","t","i","n","y",".","j","p","g">>, 10, 10, <<>>),
               DomImg(<<"h","t","t","p","s",":","/","/","s","h","o","p",".","e","x","/","w","i","d","e",".","j","p","g">>, 200, 50, <<>>) >>]

DomTwo ==
  [og |-> <<>>,
   imgs |-> << DomImg(<<"h","t","t","p","s",":","/","/","s","h","o","p",".","e","x","/","a","_","3","0","0","x","3","0","0",".","j","p","g">>, 300, 300, <<>>),
               DomImg(<<>>, 300, 300, <<"h","t","t","p","s",":","/","/","c","d","n",".","e","x","/","z",".","j","p","g"," ","2","x">>) >>]

AllDoms == {EmptyDom, DomOne, DomTwo}

\* faults: whether fetches, body reads and browser steps may fail
\* pages and documents of the scrape-image route
ScrapePageMeta == [EmptyScrapePage EXCEPT !.og = <<UrlA, UrlB>>, !.img = <<UrlI>>]

ScrapePageJson == [EmptyScrapePage EXCEPT !.jsonld = << <<>>, UrlC >>]

ScrapePageLazy ==
  [EmptyScrapePage EXCEPT !.jsonld = << <<>> >>,
                          !.patterns = << <<>>, UrlD, <<>>, <<>>, <<>> >>,
                          !.img = <<UrlI>>]

ScrapePageImgs ==
  [EmptyScrapePage EXCEPT !.patterns = << <<>>, <<>>, <<>>, <<>>, <<>> >>,
                          !.img = <<UrlF, <<"/","i","m","g","/","b","a","n","n","e","r",".","g","i","f">>, UrlD, UrlI>>]

ScrapePageChallenge == [ScrapePageMeta EXCEPT !.needsJs = TRUE]

AllScrapePages ==
  {EmptyScrapePage, ScrapePageMeta, ScrapePageJson, ScrapePageLazy,
   ScrapePageImgs, ScrapePageChallenge}

ScrapeDomMeta == [EmptyScrapeDom EXCEPT !.twitter = UrlB]

ScrapeDomFalsyProduct ==
  [EmptyScrapeDom EXCEPT
     !.jsonld = << <<>>, UrlC >>,
     !.imgs = << DomImg(<<"h","t","t","p","s",":","/","/","s","h","o","p",".","e","x","/","b","i","g",".","j","p","g">>, 400, 400, <<>>) >>]

ScrapeDomImgs ==
  [EmptyScrapeDom EXCEPT
     !.imgs = << DomImg(<<"h","t","t","p","s",":","/","/","s","h","o","p",".","e","x","/","l","o","g","o",".","p","n","g">>, 500, 500, <<>>),
                 DomImg(<<"h","t","t","p","s",":","/","/","s","h","o","p",".","e","x","/","t","h","u","m","b",".","j","p","g">>, 100, 100, <<>>),
                 DomImg(<<"/","r","e","l","/","a",".","j","p","g">>, 200, 200, <<>>),
                 DomImg(<<"h","t","t","p","s",":","/","/","s","h","o","p",".","e","x","/","b",".","j","p","g">>, 200, 200, <<>>),
                 DomImg(<<"h","t","t","p","s",":","/","/","s","h","o","p",".","e","x","/","b","i","g",".","j","p","g">>, 400, 300, <<>>) >>]

AllScrapeDoms ==
  {EmptyScrapeDom, ScrapeDomMeta, ScrapeDomFalsyProduct, ScrapeDomImgs}

FullWeb ==
  [urls |-> PageUrls, pages |-> AllPages, mobile |-> AllMobilePages,
   doms |-> AllDoms, scrapePages |-> AllScrapePages,
   scrapeDoms |-> AllScrapeDoms, faults |-> TRUE]

\* what concurrent runs are served: pages with URLs in common, no faults
SharedWeb ==
  [urls |-> {ShopUrl}, pages |-> {PageOne, PageTwo},
   mobile |-> {<<UrlC, UrlE>>}, doms |-> {DomOne},
   scrapePages |-> {EmptyScrapePage, ScrapePageMeta},
   scrapeDoms |-> {ScrapeDomImgs}, faults |-> FALSE]

----------------------------------------------------------------------------
(* The routes: one run per request *)

VARIABLES
  variant,      \* the route file deployed: fetch-page-images as "fetch" or
                \* "puppeteer", scrape-image as "scrape" (puppeteer
                \* variant) or "scrapeMobile" (mobile variant)
  active,       \* the requests that arrive
  web,          \* the pages and documents the web serves
  pc,           \* where each run stands
  body,         \* the request body: "bad_json", "no_url" or "url"
  url,          \* the url of the request
  pageFetch,    \* outcome of simpleScrape's fetch
  html,         \* the page text simpleScrape read, if any
  seenUrls,     \* simpleScrape's seenUrls
  directImages, \* what simpleScrape returned
  stage2,       \* the second stage was started
  mobileHtml,   \* the page text the mobile fetch read, if any
  images,       \* the caller's images list
  mergeSeen,    \* the caller's seenUrls
  lookup,       \* how the search for a browser executable ended
  browser,      \* browserScrape's browser: "null", "open" or "closed"
  launches,     \* sessions launched by the run
  closes,       \* calls of browser.close() by the run
  step,         \* the next step of browserScrape on the page
  failedAt,     \* the step of browserScrape that threw, if any
  browserImages, \* what browserScrape returns
  resp,         \* the response, once sent
  call,         \* a direct call of one of the URL helpers
  imageReq,     \* the request of the fetch-image route and its handler
  tryon,        \* the request of the try-on route and its handler
  home,         \* the state of the Home page and its detections in flight
  popup         \* the state of ImagePickerPopup and its requests in flight

runVars ==
  <<variant, active, web, pc, body, url, pageFetch, html, seenUrls,
    directImages, stage2, mobileHtml, images, mergeSeen, lookup, browser,
    launches, closes, step, failedAt, browserImages, resp>>

\* what the page routes leave alone
others == <<call, imageReq, tryon, home, popup>>

vars == <<runVars, call, imageReq, tryon, home, popup>>

\* the two files of the fetch-page-images route
PageImagesVariants == {"fetch", "puppeteer"}

\* the two files of the scrape-image route
ScrapeVariants == {"scrape", "scrapeMobile"}

AllVariants == PageImagesVariants \cup ScrapeVariants

\* status of the POST handlers' catch (lines 1035-1038, 1335-1338)
CatchStatus == 200

\* status for a request without url
MissingUrlStatus == 400

\* a catch that answers as the scrape-image route does: status 500, no list
CatchResponseServerError ==
  [status |-> 500, error |-> TRUE, images |-> <<>>, total |-> <<>>]

CatchResponse ==
  [status |-> CatchStatus, error |-> TRUE, images |-> << <<>> >>,
   total |-> <<>>]

MissingUrlResponse ==
  [status |-> MissingUrlStatus, error |-> TRUE, images |-> <<>>,
   total |-> <<>>]

\* a response whose total is taken after the cap
ImagesResponseTotalAfterCap(list) ==
  [status |-> 200, error |-> FALSE, images |-> <<Slice(list, MaxImages)>>,
   total |-> <<Len(Slice(list, MaxImages))>>]

\* lines 1028-1031 and 1328-1331
ImagesResponse(list) ==
  [status |-> 200, error |-> FALSE, images |-> <<Slice(list, MaxImages)>>,
   total |-> <<Len(list)>>]

\* the scrape-image route: nothing found, and its catch
NotFoundStatus == 404

ServerErrorStatus == 500

NotFoundResponse ==
  [status |-> NotFoundStatus, error |-> TRUE, imageUrl |-> <<>>,
   base64Image |-> FALSE]

ScrapeCatchResponse ==
  [status |-> ServerErrorStatus, error |-> TRUE, imageUrl |-> <<>>,
   base64Image |-> FALSE]

\* an image URL was found: with the image itself when its download
\* succeeded, with the URL alone otherwise
FoundResponse(imageUrl, downloaded) ==
  [status |-> 200, error |-> FALSE, imageUrl |-> <<imageUrl>>,
   base64Image |-> downloaded]

\* the catch of the POST handler of each route
CatchResponseOf(v) ==
  IF v \in ScrapeVariants THEN ScrapeCatchResponse ELSE CatchResponse

\* the steps of browserScrape between launch and return, in order
BrowserSteps ==
  <<"newPage", "setUserAgent", "goto", "settle", "scroll", "settle",
    "extract">>

\* the same in the scrape-image route
ScrapeBrowserSteps ==
  <<"newPage", "setViewport", "setUserAgent", "goto", "settle", "extract">>

BrowserStepsOf(v) ==
  IF v = "scrape" THEN ScrapeBrowserSteps ELSE BrowserSteps

\* a fixed sleep cannot throw
CanThrow(name) == name # "settle"

\* a close placed at the end of the try block instead of in finally
ClosesOnSuccessOnly(b, failed) == b = "open" /\ ~failed

\* finally { if (browser) await browser.close() }
ClosesOnExit(b, failed) == b = "open"

InitRuns(requests, served, variants) ==
  /\ variant \in variants
  /\ active = requests
  /\ web = served
  /\ pc = [r \in Runs |-> "idle"]
  /\ body = [r \in Runs |-> "none"]
  /\ url = [r \in Runs |-> <<>>]
  /\ pageFetch = [r \in Runs |-> "none"]
  /\ html = [r \in Runs |-> <<>>]
  /\ seenUrls = [r \in Runs |-> {}]
  /\ directImages = [r \in Runs |-> <<>>]
  /\ stage2 = [r \in Runs |-> FALSE]
  /\ mobileHtml = [r \in Runs |-> <<>>]
  /\ images = [r \in Runs |-> <<>>]
  /\ mergeSeen = [r \in Runs |-> {}]
  /\ lookup = [r \in Runs |-> "none"]
  /\ browser = [r \in Runs |-> "null"]
  /\ launches = [r \in Runs |-> 0]
  /\ closes = [r \in Runs |-> 0]
  /\ step = [r \in Runs |-> 1]
  /\ failedAt = [r \in Runs |-> "none"]
  /\ browserImages = [r \in Runs |-> <<>>]
  /\ resp = [r \in Runs |-> <<>>]
  /\ call = <<>>
  /\ imageReq = [pc |-> "idle", body |-> "none", imageUrl |-> <<>>,
                 referer |-> <<>>,
                 gets |-> 0, sent |-> <<>>, upstream |-> <<>>,
                 resp |-> <<>>]
  /\ tryon = [pc |-> "idle", body |-> "none", retries |-> 0, runs |-> 0,
              errors |-> <<>>, output |-> "none", resp |-> <<>>]
  /\ home = [autoDetect |-> TRUE, detectingClothing |-> FALSE,
             showImagePicker |-> FALSE, clothImages |-> <<>>,
             pending |-> 0, completed |-> 0, last |-> "none"]
  /\ popup = [isOpen |-> FALSE, url |-> <<>>, images |-> <<>>,
              loading |-> FALSE, error |-> FALSE, pending |-> {},
              issued |-> 0]

\* POST: await request.json(), the url check, and the call of simpleScrape
\* up to its fetch
Receive(r) ==
  /\ r \in active
  /\ pc[r] = "idle"
  /\ \/ /\ web.faults
        /\ body' = [body EXCEPT ![r] = "bad_json"]
        /\ resp' = [resp EXCEPT ![r] = <<CatchResponseOf(variant)>>]
        /\ pc' = [pc EXCEPT ![r] = "done"]
        /\ UNCHANGED <<url, seenUrls>>
     \/ /\ body' = [body EXCEPT ![r] = "no_url"]
        /\ resp' = [resp EXCEPT ![r] = <<MissingUrlResponse>>]
        /\ pc' = [pc EXCEPT ![r] = "done"]
        /\ UNCHANGED <<url, seenUrls>>
     \/ \E u \in web.urls :
          /\ body' = [body EXCEPT ![r] = "url"]
          /\ url' = [url EXCEPT ![r] = u]
          /\ seenUrls' = [seenUrls EXCEPT ![r] = NewSet(seenUrls)]
          /\ pc' = [pc EXCEPT ![r] = "simple_fetch"]
          /\ UNCHANGED resp
  /\ UNCHANGED <<variant, active, web, pageFetch, html, directImages, stage2,
                 mobileHtml, images, mergeSeen, lookup, browser, launches,
                 closes, step, failedAt, browserImages, others>>

\* fetch(u): it throws on a string that is no absolute URL; on a URL it
\* resolves, and it throws or answers with a non-successful status only when
\* the web may fail
FetchMay(outcome, u, faults) ==
  IF ParseUrl(u).ok THEN outcome = "ok" \/ faults ELSE outcome = "throw"

\* simpleScrape: await fetch(url).  A url that is no absolute URL makes
\* fetch throw; the catch and the !response.ok test both return the empty
\* images list.
SimpleFetch(r) ==
  /\ pc[r] = "simple_fetch"
  /\ \E outcome \in {"throw", "not_ok", "ok"} :
       /\ FetchMay(outcome, url[r], web.faults)
       /\ pageFetch' = [pageFetch EXCEPT ![r] = outcome]
       /\ IF outcome = "ok"
            THEN /\ pc' = [pc EXCEPT ![r] = "simple_text"]
                 /\ UNCHANGED directImages
            ELSE /\ pc' = [pc EXCEPT ![r] = "decide"]
                 /\ directImages' = [directImages EXCEPT ![r] = <<>>]
  /\ UNCHANGED <<variant, active, web, body, url, html, seenUrls, stage2,
                 mobileHtml, images, mergeSeen, lookup, browser, launches,
                 closes, step, failedAt, browserImages, resp, others>>

\* simpleScrape: await response.text() and the scan of the text, which is
\* synchronous
SimpleText(r) ==
  /\ pc[r] = "simple_text"
  /\ \/ /\ web.faults
        /\ pageFetch' = [pageFetch EXCEPT ![r] = "text_throw"]
        /\ directImages' = [directImages EXCEPT ![r] = <<>>]
        /\ UNCHANGED <<html, seenUrls>>
     \/ /\ variant \in PageImagesVariants
        /\ \E page \in web.pages :
             LET st == ScanPage(page, url[r], seenUrls[r], variant = "puppeteer")
             IN  /\ html' = [html EXCEPT ![r] = <<page>>]
                 /\ directImages' = [directImages EXCEPT ![r] = st.images]
                 /\ seenUrls' = [seenUrls EXCEPT ![r] = st.seen]
                 /\ UNCHANGED pageFetch
     \/ /\ variant = "scrape"
        /\ \E page \in web.scrapePages :
             /\ html' = [html EXCEPT ![r] = <<page>>]
             /\ directImages' = [directImages EXCEPT ![r] =
                                   ScrapePage(page, url[r])]
             /\ UNCHANGED <<pageFetch, seenUrls>>
     \/ /\ variant = "scrapeMobile"
        /\ \E page \in web.scrapePages :
             /\ html' = [html EXCEPT ![r] = <<page>>]
             /\ directImages' = [directImages EXCEPT ![r] =
                                   ScrapePageMobileUA(page, url[r])]
             /\ UNCHANGED <<pageFetch, seenUrls>>
  /\ pc' = [pc EXCEPT ![r] = "decide"]
  /\ UNCHANGED <<variant, active, web, body, url, stage2, mobileHtml, images,
                 mergeSeen, lookup, browser, launches, closes, step, failedAt,
                 browserImages, resp, others>>

\* a second stage that runs on every request
NeedsBrowserAlways(imageUrl) == TRUE

\* the scrape-image route starts browserScrape (mobileScrape in the mobile
\* variant) on if (!imageUrl)
NeedsBrowser(imageUrl) == imageUrl = <<>>

\* the caller takes simpleScrape's result and decides on the second stage
\* (lines 974-983 and 1309-1314; scrape-image route: lines 290-296, and
\* lines 192-198 of its mobile variant)
Decide(r) ==
  /\ pc[r] = "decide"
  /\ IF variant \in ScrapeVariants
       THEN /\ images' = [images EXCEPT ![r] = directImages[r]]
            /\ stage2' = [stage2 EXCEPT ![r] = NeedsBrowser(directImages[r])]
            /\ pc' = [pc EXCEPT ![r] =
                        IF ~NeedsBrowser(directImages[r]) THEN "image_fetch"
                        ELSE IF variant = "scrape" THEN "lookup"
                        ELSE "mobile_fetch"]
            /\ UNCHANGED mergeSeen
       ELSE LET list == IF variant = "fetch"
                          THEN MergeInto(<<>>, directImages[r])
                          ELSE directImages[r]
            IN  /\ images' = [images EXCEPT ![r] = list]
                /\ mergeSeen' = [mergeSeen EXCEPT ![r] = Range(list)]
                /\ stage2' = [stage2 EXCEPT ![r] = NeedsSecondStage(Len(list))]
                /\ pc' = [pc EXCEPT ![r] =
                            IF ~NeedsSecondStage(Len(list)) THEN "respond"
                            ELSE IF variant = "fetch" THEN "mobile_fetch"
                            ELSE "lookup"]
  /\ UNCHANGED <<variant, active, web, body, url, pageFetch, html, seenUrls,
                 directImages, mobileHtml, lookup, browser, launches, closes,
                 step, failedAt, browserImages, resp, others>>

\* fetchImagesWithFallbacks: await fetch with the mobile user agent
MobileFetch(r) ==
  /\ pc[r] = "mobile_fetch"
  /\ \E outcome \in {"throw", "not_ok", "ok"} :
       /\ FetchMay(outcome, url[r], web.faults)
       /\ pc' = [pc EXCEPT ![r] = IF outcome = "ok" THEN "mobile_text"
                                  ELSE "respond"]
  /\ UNCHANGED <<variant, active, web, body, url, pageFetch, html, seenUrls,
                 directImages, stage2, mobileHtml, images, mergeSeen, lookup,
                 browser, launches, closes, step, failedAt, browserImages,
                 resp, others>>

\* fetchImagesWithFallbacks: await response.text() and the img scan; in
\* the scrape-image route, mobileScrape's await response.text() and its
\* extractImageFromHtml, whose result POST takes as imageUrl (lines 197-200)
MobileText(r) ==
  /\ pc[r] = "mobile_text"
  /\ \/ /\ web.faults
        /\ pc' = [pc EXCEPT ![r] = "respond"]
        /\ UNCHANGED <<mobileHtml, images, mergeSeen>>
     \/ /\ variant = "fetch"
        /\ \E srcs \in web.mobile :
             LET st == MobileScan([images |-> images[r], seen |-> mergeSeen[r]],
                                  srcs, url[r])
             IN  /\ mobileHtml' = [mobileHtml EXCEPT ![r] = <<srcs>>]
                 /\ images' = [images EXCEPT ![r] = st.images]
                 /\ mergeSeen' = [mergeSeen EXCEPT ![r] = st.seen]
        /\ pc' = [pc EXCEPT ![r] = "respond"]
     \/ /\ variant = "scrapeMobile"
        /\ \E page \in web.scrapePages :
             /\ mobileHtml' = [mobileHtml EXCEPT ![r] = <<page>>]
             /\ images' = [images EXCEPT ![r] =
                             ScrapePageMobileUA(page, url[r])]
             /\ pc' = [pc EXCEPT ![r] =
                         IF ScrapePageMobileUA(page, url[r]) = <<>>
                           THEN "respond" ELSE "image_fetch"]
        /\ UNCHANGED mergeSeen
  /\ UNCHANGED <<variant, active, web, body, url, pageFetch, html, seenUrls,
                 directImages, stage2, lookup, browser, launches, closes, step,
                 failedAt, browserImages, resp, others>>

\* the search for an executable without the "not found" return
AfterLookupAlwaysLaunch(outcome) == "launch"

\* where browserScrape goes after the search for an executable: to the
\* launch when a path was found, else out through the finally block
AfterLookup(outcome) ==
  IF outcome \in {"vercel_path", "local_found"} THEN "launch" ELSE "finally"

\* browserScrape up to the launch: chromium.executablePath() on a serverless
\* host, the search of possiblePaths elsewhere (lines 1160-1204; in the
\* scrape-image route lines 147-192)
Lookup(r) ==
  /\ pc[r] = "lookup"
  /\ \E outcome \in {"vercel_path", "vercel_throw", "local_found",
                     "local_missing"} :
       /\ outcome = "vercel_throw" => web.faults
       /\ lookup' = [lookup EXCEPT ![r] = outcome]
       /\ failedAt' = [failedAt EXCEPT ![r] =
                         IF outcome = "vercel_throw" THEN "executablePath"
                         ELSE "none"]
       /\ pc' = [pc EXCEPT ![r] = AfterLookup(outcome)]
  /\ UNCHANGED <<variant, active, web, body, url, pageFetch, html, seenUrls,
                 directImages, stage2, mobileHtml, images, mergeSeen, browser,
                 launches, closes, step, browserImages, resp, others>>

\* browser = await puppeteer.launch(launchOptions)
Launch(r) ==
  /\ pc[r] = "launch"
  /\ \/ /\ browser' = [browser EXCEPT ![r] = "open"]
        /\ launches' = [launches EXCEPT ![r] = @ + 1]
        /\ pc' = [pc EXCEPT ![r] = "page"]
        /\ UNCHANGED failedAt
     \/ /\ web.faults
        /\ failedAt' = [failedAt EXCEPT ![r] = "launch"]
        /\ pc' = [pc EXCEPT ![r] = "finally"]
        /\ UNCHANGED <<browser, launches>>
  /\ UNCHANGED <<variant, active, web, body, url, pageFetch, html, seenUrls,
                 directImages, stage2, mobileHtml, images, mergeSeen, lookup,
                 closes, step, browserImages, resp, others>>

\* one awaited step on the page (lines 1207-1284; scrape-image route: lines
\* 196-262); a step that throws is caught and browserScrape returns [] (null
\* in the scrape-image route)
PageStep(r) ==
  /\ pc[r] = "page"
  /\ \/ /\ step[r] < Len(BrowserStepsOf(variant))
        /\ step' = [step EXCEPT ![r] = @ + 1]
        /\ UNCHANGED <<pc, failedAt, browserImages>>
     \/ /\ step[r] = Len(BrowserStepsOf(variant))
        /\ IF variant = "scrape"
             THEN \E dom \in web.scrapeDoms :
                    browserImages' =
                      [browserImages EXCEPT ![r] = ScrapeDomImage(dom)]
             ELSE \E dom \in web.doms :
                    browserImages' =
                      [browserImages EXCEPT ![r] = DomImages(dom)]
        /\ pc' = [pc EXCEPT ![r] = "finally"]
        /\ UNCHANGED <<step, failedAt>>
     \/ /\ web.faults
        /\ CanThrow(BrowserStepsOf(variant)[step[r]])
        /\ failedAt' = [failedAt EXCEPT ![r] = BrowserStepsOf(variant)[step[r]]]
        /\ pc' = [pc EXCEPT ![r] = "finally"]
        /\ UNCHANGED <<step, browserImages>>
  /\ UNCHANGED <<variant, active, web, body, url, pageFetch, html, seenUrls,
                 directImages, stage2, mobileHtml, images, mergeSeen, lookup,
                 browser, launches, closes, resp, others>>

\* the finally block (lines 1291-1295; scrape-image route: lines 269-273).
\* browser.close() may itself throw:
\* the exception leaves browserScrape and reaches the catch of POST.
Finally(r) ==
  /\ pc[r] = "finally"
  /\ IF ClosesOnExit(browser[r], failedAt[r] # "none")
       THEN /\ closes' = [closes EXCEPT ![r] = @ + 1]
            /\ \/ /\ browser' = [browser EXCEPT ![r] = "closed"]
                  /\ pc' = [pc EXCEPT ![r] = "merge"]
                  /\ UNCHANGED <<failedAt, resp>>
               \/ /\ web.faults
                  /\ failedAt' = [failedAt EXCEPT ![r] = "close"]
                  /\ resp' = [resp EXCEPT ![r] = <<CatchResponseOf(variant)>>]
                  /\ pc' = [pc EXCEPT ![r] = "done"]
                  /\ UNCHANGED browser
       ELSE /\ pc' = [pc EXCEPT ![r] = "merge"]
            /\ UNCHANGED <<closes, browser, failedAt, resp>>
  /\ UNCHANGED <<variant, active, web, body, url, pageFetch, html, seenUrls,
                 directImages, stage2, mobileHtml, images, mergeSeen, lookup,
                 launches, step, browserImages, others>>

\* POST of the puppeteer variant merges what browserScrape returned
\* (lines 1316-1323); POST of the scrape-image route takes it as imageUrl
\* (lines 295-298)
Merge(r) ==
  /\ pc[r] = "merge"
  /\ IF variant = "scrape"
       THEN /\ images' = [images EXCEPT ![r] = browserImages[r]]
            /\ pc' = [pc EXCEPT ![r] =
                        IF browserImages[r] = <<>> THEN "respond"
                        ELSE "image_fetch"]
            /\ UNCHANGED mergeSeen
       ELSE /\ images' = [images EXCEPT ![r] =
                            MergeInto(images[r], browserImages[r])]
            /\ mergeSeen' = [mergeSeen EXCEPT ![r] =
                               @ \cup Range(browserImages[r])]
            /\ pc' = [pc EXCEPT ![r] = "respond"]
  /\ UNCHANGED <<variant, active, web, body, url, pageFetch, html, seenUrls,
                 directImages, stage2, mobileHtml, lookup, browser, launches,
                 closes, step, failedAt, browserImages, resp, others>>

\* the list the response is cut from: [...new Set(images)] in the fetch
\* variant (line 1026), images itself in the puppeteer variant
ResponseList(list, isFetch) == IF isFetch THEN Unique(list) ELSE list

\* POST of the scrape-image route downloads the image it found (lines
\* 310-339): the inner try/catch makes every failure of the download end in
\* the response that carries the URL alone
ImageFetch(r) ==
  /\ pc[r] = "image_fetch"
  /\ \E outcome \in {"throw", "not_ok", "ok"} :
       /\ FetchMay(outcome, images[r][1], web.faults)
       /\ resp' = [resp EXCEPT ![r] =
                     <<FoundResponse(images[r][1], outcome = "ok")>>]
  /\ pc' = [pc EXCEPT ![r] = "done"]
  /\ UNCHANGED <<variant, active, web, body, url, pageFetch, html, seenUrls,
                 directImages, stage2, mobileHtml, images, mergeSeen, lookup,
                 browser, launches, closes, step, failedAt, browserImages,
                 others>>

\* POST answers with the capped list and its length before the cap; POST
\* of the scrape-image route is here when no stage found an image
Respond(r) ==
  /\ pc[r] = "respond"
  /\ resp' = [resp EXCEPT ![r] =
                IF variant \in ScrapeVariants THEN <<NotFoundResponse>>
                ELSE <<ImagesResponse(ResponseList(images[r],
                                                   variant = "fetch"))>>]
  /\ pc' = [pc EXCEPT ![r] = "done"]
  /\ UNCHANGED <<variant, active, web, body, url, pageFetch, html, seenUrls,
                 directImages, stage2, mobileHtml, images, mergeSeen, lookup,
                 browser, launches, closes, step, failedAt, browserImages,
                 others>>

Init == InitRuns({1}, FullWeb, AllVariants)

Next ==
  \E r \in Runs :
    \/ Receive(r)
    \/ SimpleFetch(r)
    \/ SimpleText(r)
    \/ Decide(r)
    \/ MobileFetch(r)
    \/ MobileText(r)
    \/ Lookup(r)
    \/ Launch(r)
    \/ PageStep(r)
    \/ Finally(r)
    \/ Merge(r)
    \/ ImageFetch(r)
    \/ Respond(r)

\* one request at a time, on every page
Spec == Init /\ [][Next]_vars

InitConcurrent == InitRuns(Runs, SharedWeb, AllVariants)

\* all requests in flight together
SpecConcurrent == InitConcurrent /\ [][Next]_vars

----------------------------------------------------------------------------
(* The URL helpers called on their own *)

RawPrefixes ==
  { <<>>, <<"/">>, <<"/","/","c","d","n",".","e","x","/">>, <<"h","t","t","p","s",":","/","/","c","d","n",".","e","x","/">>, <<"h","t","t","p",":","/","/","c","d","n",".","e","x","/">>,
    <<"H","T","T","P","S",":","/","/","C","D","N",".","E","X","/">>, <<"h","t","t","p","d","o","c","s","/">>, <<"d","a","t","a",":">>, <<"D","A","T","A",":">> }

RawStems ==
  { <<>>, <<"p",".","j","p","g">>, <<"i","m","g","/","i","c","o","n",".","p","n","g">>, <<"I","M","G","/","I","C","O","N",".","P","N","G">>, <<"L","o","g","o","_","2","x",".","j","p","g">>,
    <<"a","_","1","0","x","1","0",".","j","p","g","?","w","=","2","0","0","&","q","=","1">>, <<"b","/","V","i","s","a","-","6","4","x","6","4",".","p","n","g">>, <<"c",".","w","e","b","p","?","x","=","1">> }

\* a data: URL of n characters
DataUrl(n) ==
  <<"d","a","t","a",":","i","m","a","g","e","/","p","n","g",";","b","a","s","e","6","4",",">>
    \o [i \in 1..(n - Len(<<"d","a","t","a",":","i","m","a","g","e","/","p","n","g",";","b","a","s","e","6","4",",">>)) |-> "A"]

RawUrls ==
  {p \o s : p \in RawPrefixes, s \in RawStems}
    \cup {DataUrl(40), DataUrl(DataUrlMinLength - 1),
          DataUrl(DataUrlMinLength), DataUrl(DataUrlMinLength + 100)}

\* URLs for the resolution rewrite: size parameters in either order, several
\* size infixes and size segments in a row, and the hosts of the site rules
SizedUrls ==
  { <<"h","t","t","p","s",":","/","/","c","d","n",".","e","x","/","p",".","j","p","g","?","q","=","1","&","w","=","2","0","0">>,
    <<"h","t","t","p","s",":","/","/","c","d","n",".","e","x","/","p",".","j","p","g","?","w","=","2","0","0","&","h","=","1","0","0","&","s","i","z","e","=","x","l">>,
    <<"h","t","t","p","s",":","/","/","c","d","n",".","e","x","/","d","_","1","0","x","1","0","_","2","0","x","2","0",".","j","p","g">>,
    <<"h","t","t","p","s",":","/","/","c","d","n",".","e","x","/","1","0","x","1","0","/","2","0","x","2","0","/","e",".","j","p","g">>,
    <<"h","t","t","p","s",":","/","/","s","t","a","t","i","c",".","z","a","r","a",".","c","o","m","/","w","/","1","0","0","/","p",".","j","p","g","?","t","s","=","1">>,
    <<"h","t","t","p","s",":","/","/","i","m","a","g","e",".","h","m",".","c","o","m","/","w","/","1","0","0","/","p","_","1","0","x","1","0",".","j","p","g","?","w","=","1","0","0">>,
    <<"h","t","t","p","s",":","/","/","h","m","g","r","o","u","p",".","z","a","r","a",".","c","o","m","/","w","/","1","0","0","/","p",".","j","p","g","?","t","s","=","1">>,
    <<"?","w","=","1","0","0">> }

\* base URLs: a page URL, one with capitals and a query, a string that is
\* no URL, and a URL whose origin is opaque
BaseUrls ==
  { ShopUrl, <<"h","t","t","p",":","/","/","S","h","o","p",".","e","x","?","i","d","=","1">>, BareUrl, <<"f","i","l","e",":","/","/","/","t","m","p","/","p","a","g","e",".","h","t","m","l">> }

\* seen-URL sets a call may find
SeenSets ==
  { {}, {<<"p",".","j","p","g">>, <<"h","t","t","p","s",":","/","/","c","d","n",".","e","x","/","p",".","j","p","g">>},
    {<<"h","t","t","p","s",":","/","/","s","h","o","p",".","e","x","/","p",".","j","p","g">>, <<"h","t","t","p","s",":","/","/","s","h","o","p",".","e","x","/","c",".","w","e","b","p","?","x","=","1">>} }

InitUrl == InitRuns({}, FullWeb, {"fetch"})

CallProcessImageUrl ==
  \E imgUrl \in RawUrls, baseUrl \in BaseUrls, seen \in SeenSets :
    call' = <<[fn |-> "processImageUrl", imgUrl |-> imgUrl,
               baseUrl |-> baseUrl, seen |-> seen,
               res |-> processImageUrl(imgUrl, baseUrl, seen)]>>

CallProcessImageUrlPup ==
  \E imgUrl \in RawUrls, baseUrl \in BaseUrls, seen \in SeenSets :
    call' = <<[fn |-> "processImageUrlPup", imgUrl |-> imgUrl,
               baseUrl |-> baseUrl, seen |-> seen,
               res |-> processImageUrlPup(imgUrl, baseUrl, seen)]>>

CallShouldSkip ==
  \E imgUrl \in RawUrls :
    call' = <<[fn |-> "shouldSkip", imgUrl |-> imgUrl, baseUrl |-> <<>>,
               seen |-> {},
               res |-> Rejected(IF shouldSkip(imgUrl) THEN "skip" ELSE "keep",
                                {})]>>

CallGetHighResUrl ==
  \E imgUrl \in RawUrls \cup SizedUrls :
    call' = <<[fn |-> "getHighResUrl", imgUrl |-> imgUrl, baseUrl |-> <<>>,
               seen |-> {},
               res |-> [ret |-> "url", out |-> getHighResUrl(imgUrl),
                        seen |-> {}]]>>

\* the JSON-LD scan of simpleScrape on one block
CallJsonLdScan ==
  \E block \in SampleBlocks :
    call' = <<[fn |-> "jsonLdScan", imgUrl |-> <<>>, baseUrl |-> <<>>,
               seen |-> {}, block |-> block,
               res |-> [ret |-> "calls", out |-> JsonLdCalls(<<block>>, FALSE),
                        seen |-> {}]]>>

\* one call per behaviour
NextUrl ==
  /\ call = <<>>
  /\ \/ CallProcessImageUrl
     \/ CallProcessImageUrlPup
     \/ CallShouldSkip
     \/ CallGetHighResUrl
     \/ CallJsonLdScan
  /\ UNCHANGED <<runVars, imageReq, tryon, home, popup>>

\* the helpers applied to every raw URL, base URL and seen-URL set
SpecUrl == InitUrl /\ [][NextUrl]_vars


----------------------------------------------------------------------------
(* The fetch-image route *)

\* the status codes of the handler's responses
OkStatus == 200

BadRequestStatus == 400

FetchFailedStatus == 500

\* request bodies: no JSON at all, none with an imageUrl, or an imageUrl
\* with or without a referer
ImageUrls == { <<"h","t","t","p","s",":","/","/","c","d","n",".","e","x","/","p",".","j","p","g">>, <<"h","t","t","p",":","/","/","c","d","n",".","e","x","/","q",".","p","n","g">>, <<"c","d","n",".","e","x","/","p",".","j","p","g">> }

Referers == { <<>>, ShopUrl }

\* what upstream answers: a status, the content-type header if any, and
\* the number of body bytes
UpstreamStatuses == {200, 204, 404, 500}

ContentTypes ==
  { <<>>, <<<<"i","m","a","g","e","/","p","n","g">>>>, <<<<"i","m","a","g","e","/","j","p","e","g">>>>, <<<<"t","e","x","t","/","h","t","m","l">>>>,
    <<<<"I","M","A","G","E","/","P","N","G">>>>, <<<<"a","p","p","l","i","c","a","t","i","o","n","/","o","c","t","e","t","-","s","t","r","e","a","m">>>> }

BodySizes == {0, 1, 3}

Upstreams ==
  [status : UpstreamStatuses, contentType : ContentTypes, size : BodySizes]

\* Response.ok
IsOk(status) == status >= 200 /\ status <= 299

\* the decimal digits of a three-digit status
StatusText(status) ==
  << DigitOf(status \div 100), DigitOf((status \div 10) % 10),
     DigitOf(status % 10) >>

\* NextResponse.json({ error }, { status })
ErrorResponse(message, status) ==
  [status |-> status, error |-> <<message>>, payload |-> <<>>]

\* Buffer.from(buffer).toString('base64') of n zero bytes: four characters
\* for every three bytes, padded with =
Base64OfZeros(n) ==
  [i \in 1..(4 * ((n + 2) \div 3)) |->
     IF i <= (4 * n + 2) \div 3 THEN "A" ELSE "="]

\* lines 38-46: the success payload
ImageResponse(contentType, size) ==
  [status |-> OkStatus, error |-> <<>>,
   payload |-> <<[base64Image |-> <<"d","a","t","a",":">> \o contentType \o <<";","b","a","s","e","6","4",",">>
                                  \o Base64OfZeros(size),
                  contentType |-> contentType, size |-> size]>>]

\* the catch of POST (lines 48-54)
FailedResponse == ErrorResponse(<<"F","a","i","l","e","d"," ","t","o"," ","f","e","t","c","h"," ","i","m","a","g","e">>, FetchFailedStatus)

\* response.headers.get('content-type') || 'image/jpeg'
ContentTypeOf(header) ==
  IF header = <<>> \/ header[1] = <<>> THEN <<"i","m","a","g","e","/","j","p","e","g">> ELSE header[1]

\* a handler that asks upstream again after a status that is not ok
AfterResponseRetrying(response) ==
  IF ~IsOk(response.status) THEN [pc |-> "fetch", resp |-> <<>>]
  ELSE IF ~startsWith(ContentTypeOf(response.contentType), <<"i","m","a","g","e","/">>)
    THEN [pc |-> "done",
          resp |-> <<ErrorResponse(<<"U","R","L"," ","d","o","e","s"," ","n","o","t"," ","p","o","i","n","t"," ","t","o"," ","a","n"," ","i","m","a","g","e">>,
                                   BadRequestStatus)>>]
  ELSE [pc |-> "read", resp |-> <<>>]

\* lines 21-36: what the handler does with the upstream response before it
\* awaits the body
AfterResponse(response) ==
  IF ~IsOk(response.status)
    THEN [pc |-> "done",
          resp |-> <<ErrorResponse(<<"C","o","u","l","d"," ","n","o","t"," ","f","e","t","c","h"," ","i","m","a","g","e"," ","(">>
                                     \o StatusText(response.status) \o <<")">>,
                                   BadRequestStatus)>>]
  ELSE IF ~startsWith(ContentTypeOf(response.contentType), <<"i","m","a","g","e","/">>)
    THEN [pc |-> "done",
          resp |-> <<ErrorResponse(<<"U","R","L"," ","d","o","e","s"," ","n","o","t"," ","p","o","i","n","t"," ","t","o"," ","a","n"," ","i","m","a","g","e">>,
                                   BadRequestStatus)>>]
  ELSE [pc |-> "read", resp |-> <<>>]

\* lines 5-9: await request.json() and the imageUrl check; a body that is
\* no JSON makes request.json() throw
ImageReceive ==
  /\ imageReq.pc = "idle"
  /\ \/ imageReq' = [imageReq EXCEPT !.pc = "done", !.body = "bad_json",
                                       !.resp = <<FailedResponse>>]
     \/ imageReq' = [imageReq EXCEPT
                       !.pc = "done", !.body = "no_url",
                       !.resp = <<ErrorResponse(<<"I","m","a","g","e"," ","U","R","L"," ","i","s"," ","r","e","q","u","i","r","e","d">>,
                                                BadRequestStatus)>>]
     \/ \E imageUrl \in ImageUrls, referer \in Referers :
          imageReq' = [imageReq EXCEPT !.pc = "fetch", !.body = "url",
                                       !.imageUrl = imageUrl,
                                       !.referer = referer]
  /\ UNCHANGED <<runVars, call, tryon, home, popup>>

\* lines 13-36: await fetch(imageUrl, ...) and the checks of the response.
\* fetch throws on a string it cannot parse before any request is made, and
\* on a host it cannot reach after the GET was sent.
ImageGet ==
  /\ imageReq.pc = "fetch"
  /\ IF ~ParseUrl(imageReq.imageUrl).ok
       THEN imageReq' = [imageReq EXCEPT !.pc = "done",
                                         !.resp = <<FailedResponse>>]
       ELSE \/ imageReq' =
                 [imageReq EXCEPT
                    !.pc = "done", !.gets = @ + 1,
                    !.sent = Append(@, IF imageReq.referer = <<>>
                                         THEN imageReq.imageUrl
                                         ELSE imageReq.referer),
                    !.resp = <<FailedResponse>>]
            \/ \E response \in Upstreams :
                 imageReq' =
                   [imageReq EXCEPT
                      !.pc = AfterResponse(response).pc, !.gets = @ + 1,
                      !.sent = Append(@, IF imageReq.referer = <<>>
                                           THEN imageReq.imageUrl
                                           ELSE imageReq.referer),
                      !.upstream = <<response>>,
                      !.resp = AfterResponse(response).resp]
  /\ UNCHANGED <<runVars, call, tryon, home, popup>>

\* lines 38-46: await response.arrayBuffer(), which may throw, and the
\* success payload
ImageRead ==
  /\ imageReq.pc = "read"
  /\ \/ imageReq' = [imageReq EXCEPT !.pc = "done", !.resp = <<FailedResponse>>]
     \/ imageReq' =
          [imageReq EXCEPT
             !.pc = "done",
             !.resp = <<ImageResponse(
                          ContentTypeOf(imageReq.upstream[1].contentType),
                          imageReq.upstream[1].size)>>]
  /\ UNCHANGED <<runVars, call, tryon, home, popup>>

NextFetchImage ==
  \/ ImageReceive
  \/ ImageGet
  \/ ImageRead

\* one request to the fetch-image route
SpecFetchImage == InitUrl /\ [][NextFetchImage]_vars

----------------------------------------------------------------------------
(* The try-on route: POST and its retry loop *)

\* let retries = 3
MaxRetries == 3

\* messages replicate.run may reject with
RunErrorMessages ==
  { <<"R","e","q","u","e","s","t"," ","f","a","i","l","e","d"," ","w","i","t","h"," ","s","t","a","t","u","s"," ","4","2","9"," ","T","o","o"," ","M","a","n","y"," ","R","e","q","u","e","s","t","s">>,
    <<"r","a","t","e"," ","l","i","m","i","t"," ","e","x","c","e","e","d","e","d">>, <<"R","e","q","u","e","s","t"," ","w","a","s"," ","t","h","r","o","t","t","l","e","d">>,
    <<"R","a","t","e"," ","L","i","m","i","t"," ","E","x","c","e","e","d","e","d">>, <<"P","r","e","d","i","c","t","i","o","n"," ","f","a","i","l","e","d",":"," ","o","u","t"," ","o","f"," ","m","e","m","o","r","y">>, <<>> }

\* what replicate.run may resolve with: an async iterable of chunks, a URL
\* string, another string, an array of URLs, an array of something else, an
\* empty array, a plain object, and the falsy values "" and undefined
RunOutputs ==
  {"stream", "url", "text", "urls", "list", "empty_list", "object",
   "empty_text", "undefined"}

\* if (!output)
IsFalsy(output) == output \in {"empty_text", "undefined"}

\* an output the handler converts with awaited calls: for await over the
\* chunks, or fetch, blob and arrayBuffer of the URL
IsConverted(output) == output \in {"stream", "url", "urls"}

\* a loop that tries again after any error
IsRateLimitAnyError(message) == TRUE

\* the test of the catch inside the loop (case-sensitive)
IsRateLimit(message) ==
  \/ includes(message, <<"4","2","9">>)
  \/ includes(message, <<"r","a","t","e"," ","l","i","m","i","t">>)
  \/ includes(message, <<"t","h","r","o","t","t","l","e","d">>)

\* the responses of POST: result is set on success only
TryonResponse(status, result) == [status |-> status, result |-> result]

\* await request.json(), the check of the two images and of the token
TryonReceive ==
  /\ tryon.pc = "idle"
  /\ \E b \in {"bad_json", "no_user_image", "no_cloth_image", "no_token",
               "ok"} :
       tryon' =
         [tryon EXCEPT
            !.body = b,
            !.retries = IF b = "ok" THEN MaxRetries ELSE @,
            !.pc = IF b = "ok" THEN "run" ELSE "done",
            !.resp =
              IF b = "ok" THEN <<>>
              ELSE IF b \in {"no_user_image", "no_cloth_image"}
                THEN <<TryonResponse(BadRequestStatus, FALSE)>>
              ELSE <<TryonResponse(ServerErrorStatus, FALSE)>>]
  /\ UNCHANGED <<runVars, call, imageReq, home, popup>>

\* one pass of while (retries > 0): await replicate.run(...).  When it
\* resolves the loop is left by break, and a falsy output is thrown as an
\* error; when it rejects with a rate-limit message the handler waits, and
\* any other error is thrown again and reaches the catch of POST.
TryonRun ==
  /\ tryon.pc = "run"
  /\ tryon.retries > 0
  /\ \/ \E o \in RunOutputs :
          tryon' =
            [tryon EXCEPT
               !.runs = @ + 1,
               !.output = o,
               !.pc = IF IsFalsy(o) THEN "done" ELSE "output",
               !.resp = IF IsFalsy(o)
                          THEN <<TryonResponse(ServerErrorStatus, FALSE)>>
                        ELSE @]
     \/ \E m \in RunErrorMessages :
          tryon' =
            [tryon EXCEPT
               !.runs = @ + 1,
               !.errors = Append(@, m),
               !.pc = IF IsRateLimit(m) THEN "wait" ELSE "done",
               !.resp = IF IsRateLimit(m) THEN @
                        ELSE <<TryonResponse(ServerErrorStatus, FALSE)>>]
  /\ UNCHANGED <<runVars, call, imageReq, home, popup>>

\* the ten seconds are over: retries--, then the loop test; when no retry
\* is left, if (!output) throws lastError
TryonWait ==
  /\ tryon.pc = "wait"
  /\ tryon' =
       [tryon EXCEPT
          !.retries = @ - 1,
          !.pc = IF tryon.retries - 1 > 0 THEN "run" ELSE "done",
          !.resp = IF tryon.retries - 1 > 0 THEN @
                   ELSE <<TryonResponse(ServerErrorStatus, FALSE)>>]
  /\ UNCHANGED <<runVars, call, imageReq, home, popup>>

\* the output is turned into a data: URL.  The chunks of a stream or the
\* body of the URL are read with awaited calls that may throw; an output of
\* another shape is answered as an unexpected format.
TryonOutput ==
  /\ tryon.pc = "output"
  /\ \E converted \in BOOLEAN :
       /\ converted => IsConverted(tryon.output)
       /\ tryon' =
            [tryon EXCEPT
               !.pc = "done",
               !.resp = IF converted
                          THEN <<TryonResponse(OkStatus, TRUE)>>
                        ELSE <<TryonResponse(ServerErrorStatus, FALSE)>>]
  /\ UNCHANGED <<runVars, call, imageReq, home, popup>>

NextTryon == TryonReceive \/ TryonRun \/ TryonWait \/ TryonOutput

\* one request to the try-on route.  Every awaited call settles:
\* replicate.run resolves or rejects (the client polls the prediction until
\* it ends), the timer of the wait fires, and the reads of the output end.
SpecTryon == InitUrl /\ [][NextTryon]_vars /\ WF_vars(NextTryon)

----------------------------------------------------------------------------
(* The Home page: cloth items and the detect-clothing endpoint *)

\* cloth items a session adds
MaxCloth == 2

\* type Category
Categories ==
  {"upper_body", "lower_body", "dresses", "shoes", "eyewear", "headwear",
   "watch"}

upperBodyItems ==
  <<<<"S","H","I","R","T">>, <<"T","S","H","I","R","T">>, <<"T","-","S","H","I","R","T">>, <<"J","A","C","K","E","T">>, <<"H","O","O","D","I","E">>,
    <<"S","W","E","A","T","E","R">>, <<"C","O","A","T">>, <<"T","O","P">>, <<"B","L","O","U","S","E">>, <<"C","A","R","D","I","G","A","N">>>>

lowerBodyItems ==
  <<<<"P","A","N","T","S">>, <<"J","E","A","N","S">>, <<"T","R","O","U","S","E","R","S">>, <<"S","H","O","R","T","S">>, <<"S","K","I","R","T">>>>

dressItems == <<<<"D","R","E","S","S">>, <<"G","O","W","N">>, <<"J","U","M","P","S","U","I","T">>, <<"R","O","M","P","E","R">>>>

accessoryItems ==
  <<<<"G","L","A","S","S","E","S">>, <<"S","U","N","G","L","A","S","S","E","S">>, <<"W","A","T","C","H">>, <<"H","A","T">>, <<"C","A","P">>,
    <<"S","H","O","E","S">>, <<"S","N","E","A","K","E","R","S">>, <<"B","O","O","T","S">>, <<"B","A","G">>, <<"B","E","L","T">>, <<"S","C","A","R","F">>,
    <<"T","I","E">>, <<"J","E","W","E","L","R","Y">>, <<"N","E","C","K","L","A","C","E">>, <<"B","R","A","C","E","L","E","T">>, <<"E","A","R","R","I","N","G">>>>

\* one of the four loops of the endpoint: the first item of the list that
\* detectedType includes sets category and itemType
DetectLoop(found, detectedType, items, category) ==
  LET Matches(item) == includes(detectedType, item)
      Hit(matches) ==
        IF matches = <<>> THEN found
        ELSE [category |-> category, itemType |-> toLowerCase(matches[1])]
  IN  Hit(SelectSeq(items, Matches))

\* POST of the detect-clothing route after replicate.run: the body of its
\* response.  The four loops run one after the other, so a later list
\* overrides an earlier one.
DetectClothing(output) ==
  LET Map(detectedType) ==
        DetectLoop(
          DetectLoop(
            DetectLoop(
              DetectLoop([category |-> "upper_body",
                          itemType |-> <<"c","l","o","t","h","i","n","g">>],
                         detectedType, upperBodyItems, "upper_body"),
              detectedType, lowerBodyItems, "lower_body"),
            detectedType, dressItems, "dresses"),
          detectedType, accessoryItems, "accessories")
  IN  Map(toUpperCase(trim(output)))

\* answers of the model the endpoint asks
Labels ==
  { <<"S","H","I","R","T">>, <<" ","J","e","a","n","s"," ">>, <<"d","r","e","s","s"," ","s","h","i","r","t">>, <<"W","A","T","C","H">>, <<"O","T","H","E","R">> }

\* what fetch('/api/detect-clothing') resolves with: an error status with
\* an error body, or the endpoint's body for a label
DetectResponses ==
  {[ok |-> FALSE, data |-> <<>>]}
    \cup {[ok |-> TRUE, data |-> <<DetectClothing(l)>>] : l \in Labels}

\* detectClothingType after response.json(): null unless response.ok and
\* data.category
DetectedFrom(response) ==
  IF response.ok /\ response.data # <<>> THEN response.data ELSE <<>>

\* an item that takes the detection as it is
NewItemNoDefault(detected) ==
  IF detected = <<>> THEN [category |-> "", detectedItem |-> <<>>]
  ELSE [category |-> detected[1].category,
        detectedItem |-> detected[1].itemType]

\* newItem: detected?.category || 'upper_body', detected?.itemType || ''
NewItem(detected) ==
  IF detected = <<>> THEN [category |-> "upper_body", detectedItem |-> <<>>]
  ELSE [category |-> detected[1].category,
        detectedItem |-> detected[1].itemType]

\* setClothImages(prev => [...prev, newItem]) at the end of a handler
AddItem(h, detected, outcome) ==
  [h EXCEPT !.clothImages = Append(@, NewItem(detected)),
            !.completed = @ + 1,
            !.last = outcome]

\* a handler up to the await inside detectClothingType: with auto-detect
\* off detectClothingType returns null at once and the item is added
StartAdd(h) ==
  IF ~h.autoDetect THEN AddItem(h, <<>>, "off")
  ELSE [h EXCEPT !.detectingClothing = TRUE, !.pending = @ + 1]

\* the handlers a session may still start
MayAdd == home.completed + home.pending < MaxCloth

\* the checkbox
ToggleAutoDetect ==
  /\ home' = [home EXCEPT !.autoDetect = ~@]
  /\ UNCHANGED <<runVars, call, imageReq, tryon, popup>>

\* the Pick Image button, disabled while a detection runs
HandleProductUrlSubmit ==
  /\ ~home.detectingClothing
  /\ ~home.showImagePicker
  /\ home' = [home EXCEPT !.showImagePicker = TRUE]
  /\ UNCHANGED <<runVars, call, imageReq, tryon, popup>>

\* the file input, disabled while a detection runs: reader.onloadend
HandleClothImageUpload ==
  /\ MayAdd
  /\ ~home.detectingClothing
  /\ home' = StartAdd(home)
  /\ UNCHANGED <<runVars, call, imageReq, tryon, popup>>

\* an image was chosen in the popup
HandleImagePickerSelect ==
  /\ MayAdd
  /\ home.showImagePicker
  /\ home' = StartAdd([home EXCEPT !.showImagePicker = FALSE])
  /\ UNCHANGED <<runVars, call, imageReq, tryon, popup>>

\* a detection in flight ends: fetch or response.json() throws, or the
\* response is read; finally resets the flag, and the handler adds its item
DetectSettles ==
  /\ home.pending > 0
  /\ \/ home' = AddItem([home EXCEPT !.detectingClothing = FALSE,
                                     !.pending = @ - 1], <<>>, "throw")
     \/ \E response \in DetectResponses :
          home' = AddItem([home EXCEPT !.detectingClothing = FALSE,
                                       !.pending = @ - 1],
                          DetectedFrom(response),
                          IF response.ok THEN "ok" ELSE "error_status")
  /\ UNCHANGED <<runVars, call, imageReq, tryon, popup>>

\* categories chosen in the select of an item
ChosenCategories == {"lower_body", "watch"}

\* the select of an item
UpdateClothCategory ==
  /\ \E index \in 1..Len(home.clothImages), category \in ChosenCategories :
       home' = [home EXCEPT !.clothImages[index].category = category]
  /\ UNCHANGED <<runVars, call, imageReq, tryon, popup>>

\* the remove button of an item
RemoveClothImage ==
  /\ \E index \in 1..Len(home.clothImages) :
       home' = [home EXCEPT !.clothImages =
                  SubSeq(@, 1, index - 1) \o SubSeq(@, index + 1, Len(@))]
  /\ UNCHANGED <<runVars, call, imageReq, tryon, popup>>

NextHome ==
  \/ ToggleAutoDetect
  \/ HandleProductUrlSubmit
  \/ HandleClothImageUpload
  \/ HandleImagePickerSelect
  \/ DetectSettles
  \/ UpdateClothCategory
  \/ RemoveClothImage

\* one session on the Home page
SpecHome == InitUrl /\ [][NextHome]_vars

----------------------------------------------------------------------------
(* ImagePickerPopup: fetchImages and its requests in flight *)

\* calls of fetchImages in a session
MaxRequests == 3

\* what the product URL input of the page may hold
ProductUrls == {ShopUrl, FlagshipUrl}

\* fetchImages up to its await: the request carries the url of the render
\* it was called in
StartFetchImages(p) ==
  [p EXCEPT !.loading = TRUE,
            !.error = FALSE,
            !.images = <<>>,
            !.pending = @ \cup {[request |-> p.issued + 1, page |-> p.url]},
            !.issued = @ + 1]

\* the branch of the effect for a popup that is not open
ResetOnClose(p) == [p EXCEPT !.images = <<>>, !.error = FALSE]

\* the page's input changes the url while the popup is closed; the effect
\* runs on the new url
PopupEditUrl ==
  /\ ~popup.isOpen
  /\ \E u \in ProductUrls \ {popup.url} :
       popup' = ResetOnClose([popup EXCEPT !.url = u])
  /\ UNCHANGED <<runVars, call, imageReq, tryon, home>>

\* Pick Image on a url: isOpen becomes true and the effect calls fetchImages
PopupOpen ==
  /\ ~popup.isOpen
  /\ popup.url # <<>>
  /\ popup.issued < MaxRequests
  /\ popup' = StartFetchImages([popup EXCEPT !.isOpen = TRUE])
  /\ UNCHANGED <<runVars, call, imageReq, tryon, home>>

\* onClose: the effect resets images, error, selectedImage and manualUrl
PopupClose ==
  /\ popup.isOpen
  /\ popup' = ResetOnClose([popup EXCEPT !.isOpen = FALSE])
  /\ UNCHANGED <<runVars, call, imageReq, tryon, home>>

\* the Refresh button, rendered while the popup is open and not loading
PopupRefresh ==
  /\ popup.isOpen
  /\ ~popup.loading
  /\ popup.issued < MaxRequests
  /\ popup' = StartFetchImages(popup)
  /\ UNCHANGED <<runVars, call, imageReq, tryon, home>>

\* a request in flight ends: its response holds images, holds none, or
\* fetch or response.json() threw; finally sets loading to false.  The
\* images of a response are marked with the request they answer.
PopupSettles ==
  /\ \E req \in popup.pending, outcome \in {"images", "empty", "throw"} :
       popup' =
         [popup EXCEPT
            !.images = IF outcome = "images" THEN <<req>> ELSE @,
            !.error = IF outcome = "images" THEN @ ELSE TRUE,
            !.loading = FALSE,
            !.pending = @ \ {req}]
  /\ UNCHANGED <<runVars, call, imageReq, tryon, home>>

NextPopup ==
  \/ PopupEditUrl
  \/ PopupOpen
  \/ PopupClose
  \/ PopupRefresh
  \/ PopupSettles

\* one session with the popup
SpecPopup == InitUrl /\ [][NextPopup]_vars
----------------------------------------------------------------------------
(* Properties *)

Responded(r) == resp[r] # <<>>

Response(r) == resp[r][1]

\* the run is back in POST with browserScrape's result, or has answered
BackInPost(r) == pc[r] \in {"merge", "respond", "done"}

\* C1: in the fetch-page-images route, a request that carries a url is
\* answered with a non-error status and a body that holds an images list,
\* whatever the page fetch and the extractors do; status 400 is used only
\* when url is missing.
C1_UrlRequestGetsImagesList ==
  \A r \in Runs :
    variant \in PageImagesVariants /\ Responded(r) =>
      /\ body[r] = "url" =>
           Response(r).status < 400 /\ Response(r).images # <<>>
      /\ Response(r).status = 400 => body[r] = "no_url"

\* C1 witness: a request with a url whose page fetch threw has been answered
C1_Witness ==
  \E r \in Runs :
    /\ variant \in PageImagesVariants
    /\ Responded(r) /\ body[r] = "url" /\ pageFetch[r] = "throw"

\* C2: in browserScrape of both routes, once puppeteer.launch has succeeded,
\* browser.close() has been called exactly once when the caller gets
\* browserScrape's result or exception, and it is never called more often
\* than a session was launched.
C2_LaunchedBrowserClosedOnce ==
  \A r \in Runs :
    /\ closes[r] <= launches[r]
    /\ BackInPost(r) /\ launches[r] > 0 => closes[r] = 1

\* C2 witness: navigation threw after a launch, and the caller has the result
C2_Witness ==
  \E r \in Runs :
    pc[r] = "merge" /\ failedAt[r] = "goto" /\ launches[r] = 1

\* C3: the returned list has at most 30 entries, it is the first
\* min(30, total) entries of the merged list, and total is the length of
\* the merged list before the cap.
C3_CapKeepsPrefixAndTotal ==
  \A r \in Runs :
    variant \in PageImagesVariants /\ Responded(r) /\ ~Response(r).error =>
      /\ Len(Response(r).images[1]) <= MaxImages
      /\ Response(r).total = <<Len(images[r])>>
      /\ Response(r).images[1] =
           SubSeq(images[r], 1,
                  IF Len(images[r]) < MaxImages THEN Len(images[r])
                  ELSE MaxImages)

\* C3 witness: a response cut from a merged list longer than the cap
C3_Witness ==
  \E r \in Runs :
    /\ variant \in PageImagesVariants
    /\ Responded(r)
    /\ ~Response(r).error
    /\ Len(images[r]) > MaxImages
    /\ Len(Response(r).images[1]) = MaxImages

\* The normalized and resolution-upgraded form of the raw candidate behind
\* an entry.  The fetch variant returns that form itself; the puppeteer
\* variant returns the normalized candidate of the static stage and the raw
\* string of the browser stage.
UpgradedForm(entry, baseUrl) ==
  IF variant = "fetch" THEN entry
  ELSE getHighResUrl(MakeAbsolute(entry, baseUrl).url)

\* C4: the returned ImageSet holds no two equal entries, and no two entries
\* that come from raw candidates whose normalized and resolution-upgraded
\* forms are equal.
C4_NoTwoEntriesWithEqualForm ==
  \A r \in Runs :
    variant \in PageImagesVariants /\ Responded(r) /\ ~Response(r).error =>
      \A i, j \in 1..Len(Response(r).images[1]) :
        i < j =>
          /\ Response(r).images[1][i] # Response(r).images[1][j]
          /\ UpgradedForm(Response(r).images[1][i], url[r])
               # UpgradedForm(Response(r).images[1][j], url[r])

\* the run has passed the test of the first stage's result
PastDecision(r) == pc[r] \notin {"idle", "simple_fetch", "simple_text", "decide"}

\* the run is in its second stage
InSecondStage(r) ==
  pc[r] \in {"mobile_fetch", "mobile_text", "lookup", "launch", "page",
             "finally", "merge"}

\* C5: the second stage is started if and only if the first stage returned
\* fewer than 3 candidates.
C5_SecondStageIffFewerThanThree ==
  \A r \in Runs :
    /\ ~PastDecision(r) => ~stage2[r]
    /\ InSecondStage(r) => stage2[r]
    /\ variant \in PageImagesVariants /\ PastDecision(r) /\ body[r] = "url" =>
         (stage2[r] <=> Len(directImages[r]) \in {0, 1, 2})

\* C5 witness: a first stage with exactly 3 candidates, answered without a
\* second stage
C5_Witness ==
  \E r \in Runs :
    /\ variant \in PageImagesVariants
    /\ pc[r] = "done" /\ Len(directImages[r]) = 3 /\ ~stage2[r]

\* C6: when the browser stage fails at any step, the response still carries
\* every candidate of the static stage.
C6_BrowserFailureKeepsStaticImages ==
  \A r \in Runs :
    variant = "puppeteer" /\ Responded(r) /\ failedAt[r] # "none" =>
      /\ Response(r).images # <<>>
      /\ Response(r).images[1] = directImages[r]

\* C7: when no browser executable is found, browserScrape launches nothing,
\* closes nothing, raises nothing and returns the empty result, and the
\* request is answered with the static stage's candidates (in the
\* scrape-image route, where the browser runs only after a static stage that
\* found nothing, with the not-found response and not with the catch's).
C7_NoExecutableDegradesToStatic ==
  \A r \in Runs :
    lookup[r] = "local_missing" =>
      /\ launches[r] = 0
      /\ closes[r] = 0
      /\ failedAt[r] = "none"
      /\ browserImages[r] = <<>>
      /\ pc[r] \in {"finally", "merge", "respond", "done"}
      /\ pc[r] \in {"respond", "done"} => images[r] = directImages[r]
      /\ pc[r] = "done" =>
           Response(r) = IF variant \in ScrapeVariants THEN NotFoundResponse
                         ELSE ImagesResponse(directImages[r])

\* C7 witness: answered with static candidates after no executable was found
C7_Witness ==
  \E r \in Runs :
    /\ variant = "puppeteer"
    /\ lookup[r] = "local_missing"
    /\ pc[r] = "done"
    /\ directImages[r] # <<>>
    /\ Response(r).images = <<directImages[r]>>

\* what a run of the scrape-image route returns when it is the only one, on
\* the same page content, on a web without faults
SoloScrapeResponse(r) ==
  LET Answer(found) ==
        IF found = <<>> THEN NotFoundResponse
        ELSE FoundResponse(found[1], ParseUrl(found[1]).ok)
      Second ==
        IF variant = "scrape" THEN browserImages[r]
        ELSE IF mobileHtml[r] = <<>> THEN <<>>
        ELSE ScrapePageMobileUA(mobileHtml[r][1], url[r])
      AfterStatic(first) ==
        Answer(IF NeedsBrowser(first) THEN Second ELSE first)
  IN  IF body[r] = "no_url" THEN MissingUrlResponse
      ELSE IF body[r] = "bad_json" \/ failedAt[r] = "close"
        THEN ScrapeCatchResponse
      ELSE AfterStatic(IF html[r] = <<>> THEN <<>>
                       ELSE IF variant = "scrape"
                         THEN ScrapePage(html[r][1], url[r])
                       ELSE ScrapePageMobileUA(html[r][1], url[r]))

\* what a run of the fetch-page-images route returns when it is the only
\* one, on the same page content and the same outcomes of its awaited calls
SoloResponse(r) ==
  LET isFetch == variant = "fetch"
      direct == IF html[r] = <<>> THEN <<>>
                ELSE ScanPage(html[r][1], url[r], {}, ~isFetch).images
      list0 == IF isFetch THEN MergeInto(<<>>, direct) ELSE direct
      second == Len(list0) < 3
      list1 == IF ~second THEN list0
               ELSE IF isFetch
                 THEN IF mobileHtml[r] = <<>> THEN list0
                      ELSE MobileScan([images |-> list0, seen |-> Range(list0)],
                                      mobileHtml[r][1], url[r]).images
               ELSE MergeInto(list0, browserImages[r])
  IN  IF body[r] = "no_url" THEN MissingUrlResponse
      ELSE IF body[r] = "bad_json" \/ failedAt[r] = "close" THEN CatchResponse
      ELSE ImagesResponse(IF isFetch THEN Unique(list1) ELSE list1)

\* C8: under every interleaving, each run returns the result it returns when
\* executed alone on the same page content.
C8_RunsDoNotInterfere ==
  \A r \in Runs :
    pc[r] = "done" =>
      Response(r) = IF variant \in ScrapeVariants THEN SoloScrapeResponse(r)
                    ELSE SoloResponse(r)

\* C8 witness: two runs have answered on the same page with images
C8_Witness ==
  \E r, q \in Runs :
    /\ variant \in PageImagesVariants
    /\ r # q
    /\ pc[r] = "done" /\ pc[q] = "done"
    /\ html[r] # <<>> /\ html[r] = html[q]
    /\ Response(r).images[1] # <<>>
    /\ Response(q).images[1] # <<>>

\* an absolute URL: it begins with http://, https:// or data:
IsAbsoluteUrl(u) ==
  \/ startsWith(u, <<"h","t","t","p",":","/","/">>)
  \/ startsWith(u, <<"h","t","t","p","s",":","/","/">>)
  \/ startsWith(u, <<"d","a","t","a",":">>)

\* C9: processImageUrl returns null or an absolute URL, never a relative one.
C9_NeverReturnsRelativeUrl ==
  call # <<>> /\ call[1].fn = "processImageUrl" /\ call[1].res.ret = "url" =>
    IsAbsoluteUrl(call[1].res.out)

\* the lower-cased URL holds a token of the list at some position
HoldsToken(tokens, u) ==
  LET low == toLowerCase(u)
  IN  \E k \in 1..Len(tokens) :
        \E i \in 1..Len(low) :
          /\ i + Len(tokens[k]) - 1 <= Len(low)
          /\ SubSeq(low, i, i + Len(tokens[k]) - 1) = tokens[k]

\* the spellings of a URL in other letter cases
CaseVariants(u) ==
  { toUpperCase(u), toLowerCase(u),
    [i \in 1..Len(u) |-> IF i % 2 = 0 THEN toUpperChar(u[i])
                         ELSE toLowerChar(u[i])] }

\* the filter of processImageUrl turned the URL down: the denylist test or,
\* in the fetch variant, the data: rule
FilterRejected(ret) == ret \in {"skip", "small_data"}

\* a data: URL below the placeholder threshold
ShortDataUrl(u) == startsWith(u, <<"d","a","t","a",":">>) /\ Len(u) < DataUrlMinLength

\* C10 as stated: the candidate filter rejects a URL if and only if its
\* lower-cased form holds a token of the denylist, and decides the same for
\* every letter-case variant of the URL.
C10_FilterRejectsIffDenylisted ==
  /\ call # <<>> /\ call[1].fn = "shouldSkip" =>
       /\ call[1].res.ret = "skip" <=> HoldsToken(skipPatternsDom, call[1].imgUrl)
       /\ \A v \in CaseVariants(call[1].imgUrl) :
            shouldSkip(v) <=> call[1].res.ret = "skip"
  /\ /\ call # <<>>
     /\ call[1].fn = "processImageUrl"
     /\ call[1].res.ret # "empty_or_seen"
     => /\ FilterRejected(call[1].res.ret)
             <=> HoldsToken(skipPatterns, call[1].imgUrl)
        /\ \A v \in CaseVariants(call[1].imgUrl) :
             FilterRejected(processImageUrl(v, call[1].baseUrl, {}).ret)
               <=> FilterRejected(call[1].res.ret)
  /\ /\ call # <<>>
     /\ call[1].fn = "processImageUrlPup"
     /\ call[1].res.ret # "empty_or_seen"
     => /\ FilterRejected(call[1].res.ret)
             <=> HoldsToken(skipPatternsPup, call[1].imgUrl)
        /\ \A v \in CaseVariants(call[1].imgUrl) :
             FilterRejected(processImageUrlPup(v, call[1].baseUrl, {}).ret)
               <=> FilterRejected(call[1].res.ret)

\* C10 amended: the candidate filter rejects a URL if and only if its
\* lower-cased form holds a token of the denylist or, in the fetch variant,
\* the URL starts with data: and is shorter than 500 characters; the
\* denylist test decides the same for every letter-case variant of the URL.
C10_DenylistIsCaseInsensitiveSubstringMatch ==
  /\ call # <<>> /\ call[1].fn = "shouldSkip" =>
       /\ call[1].res.ret = "skip" <=> HoldsToken(skipPatternsDom, call[1].imgUrl)
       /\ \A v \in CaseVariants(call[1].imgUrl) :
            shouldSkip(v) <=> call[1].res.ret = "skip"
  /\ /\ call # <<>>
     /\ call[1].fn = "processImageUrl"
     /\ call[1].res.ret # "empty_or_seen"
     => /\ call[1].res.ret = "skip" <=> HoldsToken(skipPatterns, call[1].imgUrl)
        /\ FilterRejected(call[1].res.ret)
             <=> \/ HoldsToken(skipPatterns, call[1].imgUrl)
                 \/ ShortDataUrl(call[1].imgUrl)
        /\ \A v \in CaseVariants(call[1].imgUrl) :
             processImageUrl(v, call[1].baseUrl, {}).ret = "skip"
               <=> call[1].res.ret = "skip"
  /\ /\ call # <<>>
     /\ call[1].fn = "processImageUrlPup"
     /\ call[1].res.ret # "empty_or_seen"
     => /\ FilterRejected(call[1].res.ret)
             <=> HoldsToken(skipPatternsPup, call[1].imgUrl)
        /\ \A v \in CaseVariants(call[1].imgUrl) :
             processImageUrlPup(v, call[1].baseUrl, {}).ret = "skip"
               <=> call[1].res.ret = "skip"

\* C10 witness: a URL that holds a token in capitals only has been rejected
C10_Witness ==
  /\ call # <<>>
  /\ call[1].fn = "processImageUrl"
  /\ call[1].res.ret = "skip"
  /\ ~SomeIncludesCaseSensitive(skipPatterns, call[1].imgUrl)

\* C11: in the fetch variant every raw match goes through normalize, then
\* denylist filter, then resolution upgrade, then dedup-insert, so that the
\* denylist is evaluated on the normalized absolute URL and no entry of the
\* returned image list holds a denylist token.
C11_NoReturnedEntryHoldsToken ==
  \A r \in Runs :
    variant = "fetch" /\ Responded(r) /\ ~Response(r).error =>
      \A i \in 1..Len(Response(r).images[1]) :
        ~HoldsToken(skipPatterns, Response(r).images[1][i])

\* the call recorded is one of fn
Called(fn) == call # <<>> /\ call[1].fn = fn

\* C12: getHighResUrl applied to its own output changes nothing, also for
\* URLs with several size infixes or size path segments in a row.
C12_HighResIsIdempotent ==
  Called("getHighResUrl") =>
    getHighResUrl(call[1].res.out) = call[1].res.out

\* C13: for a URL that matches no site rule, getHighResUrl removes the size
\* parameters and every other query parameter in whatever order they come:
\* the result has no query string and no leftover &name=value.
C13_DefaultRuleLeavesNoQuery ==
  /\ Called("getHighResUrl")
  /\ ~IsZara(call[1].imgUrl) /\ ~IsHm(call[1].imgUrl)
  /\ DefaultHighRes(call[1].imgUrl) # <<>>
  => /\ ~includes(call[1].res.out, <<"?">>)
     /\ ~includes(call[1].res.out, <<"&">>)

\* what a rule returns: the rewritten URL, or the original if that is empty
OrOriginalUrl(highRes, imgUrl) == IF highRes = <<>> THEN imgUrl ELSE highRes

\* C14: the site rules are tried in their order in the code (Zara, then
\* H&M); the first rule that matches gives the result, later matching
\* rules have no effect, and the default rule is used exactly when no
\* pattern matches.
C14_FirstMatchingRuleWins ==
  Called("getHighResUrl") =>
    call[1].res.out =
      OrOriginalUrl(IF IsZara(call[1].imgUrl) THEN ZaraHighRes(call[1].imgUrl)
                    ELSE IF IsHm(call[1].imgUrl) THEN DropQuery(call[1].imgUrl)
                    ELSE DefaultHighRes(call[1].imgUrl),
                    call[1].imgUrl)

ImageResponded == imageReq.resp # <<>>

ImageReply == imageReq.resp[1]

\* the upstream response the handler received
Upstream == imageReq.upstream[1]

\* C16: the fetch-image handler returns the success payload only when the
\* upstream status was successful and the content type that upstream
\* declared begins with image/; every other response is an error body.
C16_PayloadOnlyForDeclaredImage ==
  ImageResponded =>
    /\ ImageReply.payload # <<>> =>
         /\ imageReq.upstream # <<>>
         /\ IsOk(Upstream.status)
         /\ Upstream.contentType # <<>>
         /\ startsWith(Upstream.contentType[1], <<"i","m","a","g","e","/">>)
    /\ ImageReply.payload = <<>> => ImageReply.error # <<>>

\* the failures C17 lists: no imageUrl, an imageUrl fetch cannot parse, a
\* fetch that threw, a status that is not ok, a content type that is no image
FetchThrew ==
  imageReq.body = "url" /\ imageReq.upstream = <<>> /\ ImageResponded

NotAnImage ==
  /\ imageReq.upstream # <<>>
  /\ IsOk(Upstream.status)
  /\ Upstream.contentType # <<>>
  /\ ~startsWith(Upstream.contentType[1], <<"i","m","a","g","e","/">>)

ListedFailure ==
  \/ imageReq.body = "no_url"
  \/ FetchThrew
  \/ imageReq.upstream # <<>> /\ ~IsOk(Upstream.status)
  \/ NotAnImage

\* C17: every failed image fetch (no or unparseable imageUrl, a fetch that
\* throws, a status that is not ok, a content type that is no image) is
\* answered with an error string and a 4xx status, and the message of the
\* non-image case is "URL does not point to an image", which the
\* unreachable case does not use.
C17_FailuresAreClientErrors ==
  ImageResponded /\ ListedFailure =>
    /\ ImageReply.error # <<>>
    /\ ImageReply.error[1] # <<>>
    /\ ImageReply.status >= 400 /\ ImageReply.status <= 499
    /\ NotAnImage <=> ImageReply.error[1] = <<"U","R","L"," ","d","o","e","s"," ","n","o","t"," ","p","o","i","n","t"," ","t","o"," ","a","n"," ","i","m","a","g","e">>

\* C18: the fetch-image handler calls fetch at most once per request,
\* whether it ends in the payload, in an error for the status or the
\* content type, or in its catch; once it has asked upstream it never asks
\* again.
C18_AtMostOneUpstreamGet ==
  /\ imageReq.gets <= 1
  /\ Len(imageReq.sent) = imageReq.gets
  /\ imageReq.upstream # <<>> => imageReq.gets = 1

\* C18 witness: the handler has answered a status that is not ok after one GET
C18_Witness ==
  /\ ImageResponded
  /\ imageReq.upstream # <<>>
  /\ ~IsOk(Upstream.status)
  /\ imageReq.gets = 1

\* an image field in one of the three shapes: a string, an array of
\* strings, or an object with a url
GivenShape(image) ==
  \/ image.kind = "str" /\ image.str # <<>>
  \/ image.kind = "obj" /\ image.url # <<>>
  \/ /\ image.kind = "arr"
     /\ image.items # <<>>
     /\ \A k \in 1..Len(image.items) :
          image.items[k].kind = "str" /\ image.items[k].str # <<>>

\* the URLs such an image field holds, in document order
UrlsOfImage(image) ==
  IF image.kind = "str" THEN <<image.str>>
  ELSE IF image.kind = "obj" THEN <<image.url>>
  ELSE [k \in 1..Len(image.items) |-> image.items[k].str]

\* the one schema of the block scanned
ScannedSchema == call[1].block.schemas[1]

\* C19: for a Product node, an ItemList item and a Product node inside
\* @graph alike, an image field that is a string, an array of strings or an
\* object with a url is handed to addImage: the URL, or one call per array
\* element in document order.
C19_EveryNodeKindHandlesEveryShape ==
  /\ Called("jsonLdScan")
  /\ call[1].block.valid
  /\ Len(call[1].block.schemas) = 1
  /\ ScannedSchema.kind = "obj"
  => /\ ScannedSchema.type = "Product" /\ GivenShape(ScannedSchema.image) =>
          call[1].res.out = UrlsOfImage(ScannedSchema.image)
     /\ /\ ScannedSchema.type = "ItemList"
        /\ Len(ScannedSchema.itemListElement) = 1
        /\ GivenShape(ScannedSchema.itemListElement[1].image)
        => call[1].res.out = UrlsOfImage(ScannedSchema.itemListElement[1].image)
     /\ /\ Len(ScannedSchema.graph) = 1
        /\ ScannedSchema.graph[1].type = "Product"
        /\ GivenShape(ScannedSchema.graph[1].image)
        => call[1].res.out = UrlsOfImage(ScannedSchema.graph[1].image)

\* the traversal of the block throws: it is no JSON, or a step throws
Broken(block) ==
  \E k \in 1..Len(BlockSteps(block.valid, block.schemas, FALSE)) :
    BlockSteps(block.valid, block.schemas, FALSE)[k].throws

\* the raw match was handed to processImageUrl during the run's scan: if
\* it is acceptable on its own, its absolute form is in the run's seenUrls
Scanned(raw, r) ==
  processImageUrl(raw, url[r], {}).ret = "url" =>
    processImageUrl(raw, url[r], {}).out \in seenUrls[r]

\* the page up to its first broken JSON-LD block
UpToFirstBroken(page) ==
  [EmptyPage EXCEPT
     !.og = page.og, !.twitter = page.twitter,
     !.jsonld = SubSeq(page.jsonld, 1,
                       Least({k \in 1..Len(page.jsonld) :
                                Broken(page.jsonld[k])}) - 1)]

\* C20: in the fetch variant a JSON-LD block that is no JSON or whose
\* traversal throws is skipped alone: every match of the other blocks and
\* of the later sources (lazy-load attributes, img tags, srcset, script
\* strings) is still scanned, and the candidates collected before the
\* broken block stay at the head of the list.
C20_BrokenBlockIsSkippedAlone ==
  \A r \in Runs :
    /\ variant = "fetch"
    /\ html[r] # <<>>
    /\ \E k \in 1..Len(html[r][1].jsonld) : Broken(html[r][1].jsonld[k])
    => /\ \A k \in 1..Len(html[r][1].jsonld) :
            ~Broken(html[r][1].jsonld[k]) =>
              \A c \in Range(JsonLdCalls(<<html[r][1].jsonld[k]>>, FALSE)) :
                Scanned(c, r)
       /\ \A c \in Range(LaterCalls(html[r][1])) : Scanned(c, r)
       /\ ScanPage(UpToFirstBroken(html[r][1]), url[r], {}, FALSE).images
            = SubSeq(directImages[r], 1,
                     Len(ScanPage(UpToFirstBroken(html[r][1]), url[r], {},
                                  FALSE).images))

\* C20 witness: a run has scanned a page with a block that is no JSON, and
\* its list holds a candidate of a block behind it and one of the img tags
C20_Witness ==
  \E r \in Runs :
    /\ variant = "fetch"
    /\ html[r] = <<PageBrokenLd>>
    /\ Responded(r)
    /\ getHighResUrl(UrlK) \in Range(directImages[r])
    /\ getHighResUrl(UrlH) \in Range(directImages[r])

\* the page with the captures of its first k signal sources only, in the
\* order Open Graph, Twitter card, JSON-LD, lazy-load attributes, img tags,
\* srcset, script strings
FirstSources(page, k) ==
  [needsJs |-> page.needsJs,
   og |-> IF k >= 1 THEN page.og ELSE <<>>,
   twitter |-> IF k >= 2 THEN page.twitter ELSE <<>>,
   jsonld |-> IF k >= 3 THEN page.jsonld ELSE <<>>,
   data |-> IF k >= 4 THEN page.data ELSE <<>>,
   img |-> IF k >= 5 THEN page.img ELSE <<>>,
   srcset |-> IF k >= 6 THEN page.srcset ELSE <<>>,
   js |-> IF k >= 7 THEN page.js ELSE <<>>]

IsPrefix(s, t) == Len(s) <= Len(t) /\ s = SubSeq(t, 1, Len(s))

C23_MobileStageAppendsUnseen ==
  \A r \in Runs :
    variant = "fetch" /\ Responded(r) /\ mobileHtml[r] # <<>> =>
      /\ IsPrefix(directImages[r], images[r])
      /\ \A i \in 1..Len(mobileHtml[r][1]) :
           /\ processImageUrl(mobileHtml[r][1][i], url[r], {}).ret = "url"
           /\ processImageUrl(mobileHtml[r][1][i], url[r], {}).out
                \notin Range(directImages[r])
           => getHighResUrl(processImageUrl(mobileHtml[r][1][i], url[r],
                                            {}).out)
                \in Range(images[r])

\* an absolute URL in any letter case
IsAbsoluteAnyCase(u) == IsAbsoluteUrl(toLowerCase(u))

\* the call recorded is one of processImageUrl, of either variant, that the
\* denylist, the data: rule and the seen set let through
Normalized ==
  /\ call # <<>>
  /\ call[1].fn \in {"processImageUrl", "processImageUrlPup"}
  /\ call[1].res.ret \in {"url", "bad_base", "throw"}

\* C24: processImageUrl of both variants applies its rules in order: empty
\* input is rejected; //host/path gets https: in front; /path gets the
\* origin of the base in front; an input without scheme and leading slash
\* becomes origin + / + input; an absolute input (http, https, data:) is
\* returned unchanged; a base that cannot be parsed makes a relative
\* candidate rejected, and nothing is raised.
C24_NormalizerRulesInOrder ==
  /\ /\ call # <<>>
     /\ call[1].fn \in {"processImageUrl", "processImageUrlPup"}
     /\ call[1].imgUrl = <<>>
     => call[1].res.ret = "empty_or_seen"
  /\ Normalized =>
       /\ call[1].res.ret # "throw"
       /\ IF startsWith(call[1].imgUrl, <<"/","/">>)
            THEN call[1].res.out = <<"h","t","t","p","s",":">> \o call[1].imgUrl
          ELSE IF IsAbsoluteAnyCase(call[1].imgUrl)
            THEN call[1].res.out = call[1].imgUrl
          ELSE IF ~ParseUrl(call[1].baseUrl).ok
            THEN call[1].res.ret = "bad_base"
          ELSE IF startsWith(call[1].imgUrl, <<"/">>)
            THEN call[1].res.out =
                   ParseUrl(call[1].baseUrl).origin \o call[1].imgUrl
          ELSE call[1].res.out =
                 ParseUrl(call[1].baseUrl).origin \o <<"/">> \o call[1].imgUrl

\* C30: when processImageUrl of the fetch variant rejects a candidate
\* (empty, seen, denylisted, short data: URL, base that cannot be parsed)
\* the seen-URL set stays as it was, and when it accepts one the set grows
\* by the returned URL and nothing else.
C30_SeenSetGrowsByReturnedUrlOnly ==
  Called("processImageUrl") =>
    /\ call[1].res.ret # "url" =>
         call[1].res.out = <<>> /\ call[1].res.seen = call[1].seen
    /\ call[1].res.ret = "url" =>
         /\ call[1].res.out \notin call[1].seen
         /\ call[1].res.seen = call[1].seen \cup {call[1].res.out}

\* C30 witness: a relative candidate has been accepted into a set that held
\* other URLs
C30_Witness ==
  /\ Called("processImageUrl")
  /\ call[1].res.ret = "url"
  /\ call[1].seen # {}
  /\ call[1].res.out # call[1].imgUrl


----------------------------------------------------------------------------
(* The scrape-image route: the fallback and the response *)

----------------------------------------------------------------------------
(* The try-on route: retries *)

\* the message holds one of the three rate-limit marks
MentionsRateLimit(message) ==
  \E mark \in {<<"4","2","9">>, <<"r","a","t","e"," ","l","i","m","i","t">>, <<"t","h","r","o","t","t","l","e","d">>} :
    includes(message, mark)

\* what C25 says of every state of a request
C25_RetryLoopIsBounded ==
  /\ tryon.runs <= 3
  /\ Len(tryon.errors) <= tryon.runs
  /\ \A i \in 1..Len(tryon.errors) :
       i < tryon.runs => MentionsRateLimit(tryon.errors[i])
  /\ \A i \in 1..Len(tryon.errors) :
       ~MentionsRateLimit(tryon.errors[i]) =>
         /\ i = tryon.runs
         /\ tryon.pc = "done"
         /\ tryon.resp = <<TryonResponse(500, FALSE)>>
  /\ Len(tryon.errors) = 3 /\ tryon.pc # "wait" =>
       /\ tryon.pc = "done"
       /\ tryon.resp = <<TryonResponse(500, FALSE)>>
  /\ tryon.pc = "done" <=> tryon.resp # <<>>

\* C25: replicate.run is invoked at most 3 times per request; an attempt
\* follows another only after an error whose message contains '429',
\* 'rate limit' or 'throttled'; any other error ends the loop at once with
\* a 500 response, three rate-limited attempts end with a 500 response, and
\* every request is answered.
C25_RetriesOnlyOnRateLimit ==
  []C25_RetryLoopIsBounded /\ <>(tryon.resp # <<>>)

\* C25 witness: three attempts were rate-limited and the request was
\* answered with status 500
C25_Witness ==
  /\ tryon.runs = 3
  /\ Len(tryon.errors) = 3
  /\ \A i \in 1..3 : MentionsRateLimit(tryon.errors[i])
  /\ tryon.pc = "done"
  /\ tryon.resp = <<TryonResponse(500, FALSE)>>

----------------------------------------------------------------------------
(* The Home page: detection and categories *)

C29_EveryCategoryIsKnown ==
  \A i \in 1..Len(home.clothImages) :
    home.clothImages[i].category \in
      {"upper_body", "lower_body", "dresses", "shoes", "eyewear",
       "headwear", "watch"}

----------------------------------------------------------------------------
(* ImagePickerPopup: responses that arrive late *)

\* C27: the images the popup holds are those of the response to the most
\* recent fetchImages request, made for the current url; a response to an
\* earlier request overwrites neither the state of a later request nor the
\* reset done on close.
C27_ImagesAreOfLatestRequest ==
  popup.images # <<>> =>
    /\ popup.isOpen
    /\ popup.images = <<[request |-> popup.issued, page |-> popup.url]>>

\* C28: loading is true exactly while at least one fetchImages request is
\* in flight.
C28_LoadingIffRequestInFlight ==
  popup.loading <=> popup.pending # {}
====
